---- MODULE Spec2Model ----
(***************************************************************************)
(* Keyword Intelligence System: the mention store (database/models.py),    *)
(* the ingestion pipeline (main.py, scrapers/*.py), the occurrence store   *)
(* (src/database/queries.py) and the scorer (processing/scoring.py).       *)
(*                                                                         *)
(* Dates are day numbers (day 0 is a Monday); ISO date strings compare as  *)
(* the day numbers do.  Real-valued scores are kept in hundredths          *)
(* (Scale), percent changes as exact fractions.                            *)
(***************************************************************************)
EXTENDS Integers, Sequences, FiniteSets, TLC

VARIABLES
    today,              \* the wall clock: date.today() / datetime.now()
    keywords,           \* table keywords
    mentions,           \* table mentions
    weekly_scores,      \* table weekly_scores
    processed_sources,  \* table processed_sources
    terms,              \* table terms            (occurrence store)
    term_occurrences,   \* table term_occurrences (occurrence store)
    pc,                 \* position of main() in its run
    args,               \* command line flags of the current run of main()
    runs,               \* number of runs of main() started so far
    fnArgs,             \* the arguments of the scorer call under study
    scoreLog,           \* history: run, week_start, number of mentions and returned
                        \* scores of each scoring run
    ret,                \* what the last call returned
    procCount,          \* history: times process_posts handled each post
    procRuns,           \* history: runs of main() in which each post was handled
    storeCalls,         \* history: the store_terms calls made, in order
    marked,             \* history: the (type, identifier) pairs marked, in call order
    calls               \* history: number of store API calls made

vars == <<today, keywords, mentions, weekly_scores, processed_sources, terms,
          term_occurrences, pc, args, runs, fnArgs, scoreLog, ret, procCount,
          procRuns, storeCalls, marked, calls>>

\* main()'s control state and the scorer arguments, left alone by the stores
ctl == <<pc, args, runs, fnArgs>>

\* the histories only a run of main() or a scoring run extends
hist == <<procRuns, scoreLog>>

-----------------------------------------------------------------------------
(* Bounds of the model *)

MaxWeek == 2
MaxBatch == 2
MaxMentions == 4
MaxRuns == 2
MaxCalls == 4
MaxStoreCalls == 3
MaxVcMentions == 2
MaxYcMentions == 1
MaxEarnings == 51
MaxScores == 2
MaxTier == 2
MaxScoreRuns == 4
MaxInt == 3
MaxListLen == 2
MaxWords == 3

-----------------------------------------------------------------------------
(* Generic helpers *)

Max(S) == CHOOSE x \in S : \A y \in S : y <= x

Min2(a, b) == IF a <= b THEN a ELSE b

Range(s) == {s[i] : i \in DOMAIN s}

\* how many positions of sequence s hold x
Occurrences(s, x) == Cardinality({i \in DOMAIN s : s[i] = x})

\* a dictionary key that is not set (a string key), a date that is None or ''
Absent == "<absent>"
NoDate == -1

\* dict.get(key, default)
Get(v, default) == IF v = Absent THEN default ELSE v

\* Optional[float]: None is <<>>, a value v is <<v>>
None == <<>>
Some(v) == <<v>>

-----------------------------------------------------------------------------
(* Text: a string is a sequence of characters, so that lower() does work *)

LowerChar(c) ==
    CASE c = "A" -> "a"
      [] c = "I" -> "i"
      [] c = "F" -> "f"
      [] c = "X" -> "x"
      [] OTHER -> c

Lower(s) == [i \in DOMAIN s |-> LowerChar(s[i])]

TermAi == <<"a", "i">>
TermAI == <<"A", "I">>
TermFx == <<"f", "x">>

-----------------------------------------------------------------------------
(* The clock *)

DaysPerWeek == 7
MidWeek == 3

\* the days the model's clock visits: the Monday and one later day of each week
ClockDays == {d \in 0..(DaysPerWeek * MaxWeek + DaysPerWeek - 1) :
                 d % DaysPerWeek \in {0, MidWeek}}

get_week_start(day) == day - (day % DaysPerWeek)

-----------------------------------------------------------------------------
(* database/models.py: class Database *)

\* an INTEGER PRIMARY KEY column left out of an INSERT gets max(rowid) + 1
NextId(table) == IF table = {} THEN 1 ELSE Max({r.id : r \in table}) + 1

\* the UPDATE on an existing row setting first_seen along with last_updated
get_or_create_keyword_reseen(kws, term, normalized_term, day) ==
    LET rows == {r \in kws : r.term = term} IN
    IF rows # {}
    THEN LET row == CHOOSE r \in rows : TRUE IN
         [keywords |-> {IF r.id = row.id
                        THEN [r EXCEPT !.last_updated = day, !.first_seen = day]
                        ELSE r : r \in kws},
          id |-> row.id]
    ELSE [keywords |-> kws \cup {[id |-> NextId(kws), term |-> term,
                                  normalized_term |->
                                      IF normalized_term # <<>> THEN normalized_term
                                      ELSE Lower(term),
                                  first_seen |-> day, last_updated |-> day]},
          id |-> NextId(kws)]

get_or_create_keyword(kws, term, normalized_term, day) ==
    LET rows == {r \in kws : r.term = term} IN
    IF rows # {}
    THEN LET row == CHOOSE r \in rows : TRUE IN
         [keywords |-> {IF r.id = row.id THEN [r EXCEPT !.last_updated = day] ELSE r
                          : r \in kws},
          id |-> row.id]
    ELSE [keywords |-> kws \cup {[id |-> NextId(kws), term |-> term,
                                  normalized_term |->
                                      IF normalized_term # <<>> THEN normalized_term
                                      ELSE Lower(term),
                                  first_seen |-> day, last_updated |-> day]},
          id |-> NextId(kws)]

add_mention(ms, keyword_id, source_type, source_name, mention_date, context, url) ==
    ms \cup {[id |-> NextId(ms), keyword_id |-> keyword_id,
              source_type |-> source_type, source_name |-> source_name,
              mention_date |-> mention_date, context |-> context, url |-> url]}

is_source_processed(ps, source_type, source_identifier) ==
    \E r \in ps : r.source_type = source_type
                  /\ r.source_identifier = source_identifier

\* INSERT OR REPLACE instead of INSERT OR IGNORE
mark_source_processed_replace(ps, source_type, source_identifier, day) ==
    {r \in ps : ~(r.source_type = source_type
                  /\ r.source_identifier = source_identifier)}
    \cup {[id |-> NextId(ps), source_type |-> source_type,
           source_identifier |-> source_identifier, processed_date |-> day]}

mark_source_processed(ps, source_type, source_identifier, day) ==
    IF \E r \in ps : r.source_type = source_type
                     /\ r.source_identifier = source_identifier
    THEN ps
    ELSE ps \cup {[id |-> NextId(ps), source_type |-> source_type,
                   source_identifier |-> source_identifier,
                   processed_date |-> day]}

\* save_weekly_score with the conflict target on keyword_id alone
save_weekly_score_any_week(ws, keyword_id, week_start, tier1_mentions, tier3_mentions, yc_mentions, score) ==
    LET hit == {r \in ws : r.keyword_id = keyword_id} IN
    IF hit # {}
    THEN {IF r \in hit
          THEN [r EXCEPT !.tier1_mentions = tier1_mentions,
                         !.tier3_mentions = tier3_mentions,
                         !.yc_mentions = yc_mentions,
                         !.score = score]
          ELSE r : r \in ws}
    ELSE ws \cup {[id |-> NextId(ws), keyword_id |-> keyword_id,
                   week_start |-> week_start, tier1_mentions |-> tier1_mentions,
                   tier3_mentions |-> tier3_mentions, yc_mentions |-> yc_mentions,
                   score |-> score]}

\* upsert on UNIQUE(keyword_id, week_start)
save_weekly_score(ws, keyword_id, week_start, tier1_mentions, tier3_mentions, yc_mentions, score) ==
    LET hit == {r \in ws : r.keyword_id = keyword_id /\ r.week_start = week_start} IN
    IF hit # {}
    THEN {IF r \in hit
          THEN [r EXCEPT !.tier1_mentions = tier1_mentions,
                         !.tier3_mentions = tier3_mentions,
                         !.yc_mentions = yc_mentions,
                         !.score = score]
          ELSE r : r \in ws}
    ELSE ws \cup {[id |-> NextId(ws), keyword_id |-> keyword_id,
                   week_start |-> week_start, tier1_mentions |-> tier1_mentions,
                   tier3_mentions |-> tier3_mentions, yc_mentions |-> yc_mentions,
                   score |-> score]}

\* ORDER BY week_start DESC
RECURSIVE OrderByWeekDesc(_)
OrderByWeekDesc(rows) ==
    IF rows = {} THEN <<>>
    ELSE LET first == CHOOSE r \in rows : \A q \in rows : q.week_start <= r.week_start
         IN  <<first>> \o OrderByWeekDesc(rows \ {first})

\* WHERE week_start <= ? instead of week_start < ?
get_previous_week_score_inclusive(ws, keyword_id, current_week) ==
    LET rows == OrderByWeekDesc({r \in ws : r.keyword_id = keyword_id
                                            /\ r.week_start <= current_week})
    IN  IF rows = <<>> THEN None ELSE Some(rows[1].score)

\* WHERE keyword_id = ? AND week_start < ? ORDER BY week_start DESC LIMIT 1
\* the latest row of the keyword, the current week's own row included
get_previous_week_score_latest(ws, keyword_id, current_week) ==
    LET rows == OrderByWeekDesc({r \in ws : r.keyword_id = keyword_id})
    IN  IF rows = <<>> THEN None ELSE Some(rows[1].score)

get_previous_week_score(ws, keyword_id, current_week) ==
    LET rows == OrderByWeekDesc({r \in ws : r.keyword_id = keyword_id
                                            /\ r.week_start < current_week})
    IN  IF rows = <<>> THEN None ELSE Some(rows[1].score)

\* the distinct source names per source type, sec_filing and financial_news
\* folded into earnings_call, and the urls
get_keyword_sources(ms, keyword_id) ==
    LET rows == {m \in ms : m.keyword_id = keyword_id} IN
    [vc_blog |-> {m.source_name : m \in {r \in rows : r.source_type = "vc_blog"}},
     yc_batch |-> {m.source_name : m \in {r \in rows : r.source_type = "yc_batch"}},
     earnings_call |-> {m.source_name : m \in {r \in rows : r.source_type \in
                           {"earnings_call", "sec_filing", "financial_news"}}},
     sec_filing |-> {},
     financial_news |-> {},
     urls |-> {m.url : m \in {r \in rows : r.url # ""}}]

\* one row of the GROUP BY of get_all_keywords_with_stats
KeywordStats(k, ms) ==
    [id |-> k.id, term |-> k.term, normalized_term |-> k.normalized_term,
     first_seen |-> k.first_seen, last_updated |-> k.last_updated,
     vc_mentions |-> Cardinality({m \in ms : m.source_type = "vc_blog"}),
     yc_mentions |-> Cardinality({m \in ms : m.source_type = "yc_batch"}),
     earnings_mentions |->
         Cardinality({m \in ms : m.source_type \in
                         {"earnings_call", "sec_filing", "financial_news"}}),
     \* COUNT(*) over a LEFT JOIN: a keyword without mentions is one joined row
     total_mentions |-> IF ms = {} THEN 1 ELSE Cardinality(ms)]

\* ORDER BY total_mentions DESC (rows with equal totals in id order)
RECURSIVE OrderByTotal(_)
OrderByTotal(rows) ==
    IF rows = {} THEN <<>>
    ELSE LET first == CHOOSE r \in rows : \A q \in rows :
                          \/ r.total_mentions > q.total_mentions
                          \/ r.total_mentions = q.total_mentions /\ r.id <= q.id
         IN  <<first>> \o OrderByTotal(rows \ {first})

\* since_date NoDate stands for None
get_all_keywords_with_stats(kws, ms, since_date) ==
    LET joined(k) == {m \in ms : m.keyword_id = k.id}
        kept(k) == {m \in joined(k) : m.mention_date >= since_date}
    IN  IF since_date = NoDate
        THEN OrderByTotal({KeywordStats(k, joined(k)) : k \in kws})
        ELSE OrderByTotal({KeywordStats(k, kept(k)) : k \in {q \in kws : kept(q) # {}}})

-----------------------------------------------------------------------------
(* The documents the scrapers hand to the core *)

SourceTypes == {"vc_blog", "yc_batch", "financial_news", "sec_filing", "earnings_call"}

PostVc ==
    [source_type |-> "vc_blog", source_name |-> "a16z", url |-> "https://a16z/p1",
     published_date |-> 1, date |-> NoDate, year |-> Absent, quarter |-> Absent,
     form |-> Absent, text |-> "agentic ai agentic ai"]

PostYc ==
    [source_type |-> "yc_batch", source_name |-> "YC-W24", url |-> "https://yc/c1",
     published_date |-> 2, date |-> NoDate, year |-> Absent, quarter |-> Absent,
     form |-> Absent, text |-> "embedded fx"]

PostNews ==
    [source_type |-> "financial_news", source_name |-> "yahoo_finance",
     url |-> "https://yahoo/n1", published_date |-> 2, date |-> NoDate,
     year |-> Absent, quarter |-> Absent, form |-> Absent,
     text |-> "agentic ai embedded fx"]

PostSec ==
    [source_type |-> "sec_filing", source_name |-> "AAPL", url |-> "https://sec/AAPL",
     published_date |-> NoDate, date |-> 1, year |-> Absent, quarter |-> Absent,
     form |-> "10-K", text |-> "embedded fx"]

PostEarnings ==
    [source_type |-> "earnings_call", source_name |-> "MSFT", url |-> "https://fmp/MSFT",
     published_date |-> NoDate, date |-> 2, year |-> "2024", quarter |-> "3",
     form |-> Absent, text |-> "agentic ai"]

AllPosts == {PostVc, PostYc, PostNews, PostSec, PostEarnings}

PostsOf(source_type) == {p \in AllPosts : p.source_type = source_type}

\* the batches a fetch can return: any posts of the type, repeats included
Batches(source_type) ==
    UNION {[1..n -> PostsOf(source_type)] : n \in 0..MaxBatch}

\* KeywordExtractor.extract_keywords on the texts above: the (keyword, count)
\* pairs of Counter.most_common(), already lower-cased by the extractor
extract_keywords(text) ==
    CASE text = "agentic ai agentic ai"  -> <<<<TermAi, 2>>>>
      [] text = "embedded fx"            -> <<<<TermFx, 1>>>>
      [] text = "agentic ai embedded fx" -> <<<<TermAi, 1>>, <<TermFx, 1>>>>
      [] text = "agentic ai"             -> <<<<TermAi, 1>>>>
      [] OTHER                           -> <<>>

-----------------------------------------------------------------------------
(* scrapers/*.py: the filters that drop already processed documents.        *)
(* An identifier is the sequence of the parts its f-string joins.           *)

UrlId(url) == <<url>>

NewPostId(post) == UrlId(post.url)

NewCompanyId(post) == UrlId(Get(post.url, ""))

NewArticleId(post) == UrlId(Get(post.url, ""))

NewFilingId(post) == <<post.source_name, "-", post.form, "-", ToString(post.date)>>

NewTranscriptId(post) ==
    <<post.source_name, "-", Get(post.year, ""), "-Q", Get(post.quarter, "")>>

get_new_posts(ps, posts) ==
    SelectSeq(posts, LAMBDA p : ~is_source_processed(ps, "vc_blog", NewPostId(p)))

get_new_companies(ps, posts) ==
    SelectSeq(posts, LAMBDA p : NewCompanyId(p) # UrlId("")
                                /\ ~is_source_processed(ps, "yc_batch", NewCompanyId(p)))

get_new_articles(ps, posts) ==
    SelectSeq(posts, LAMBDA p : NewArticleId(p) # UrlId("")
                                /\ ~is_source_processed(ps, "financial_news", NewArticleId(p)))

get_new_filings(ps, posts) ==
    SelectSeq(posts, LAMBDA p : ~is_source_processed(ps, "sec_filing", NewFilingId(p)))

get_new_transcripts(ps, posts) ==
    SelectSeq(posts, LAMBDA p : ~is_source_processed(ps, "earnings_call", NewTranscriptId(p)))

\* the filter run_<source>_scraping applies for each source type
get_new(ps, source_type, posts) ==
    CASE source_type = "vc_blog"        -> get_new_posts(ps, posts)
      [] source_type = "yc_batch"       -> get_new_companies(ps, posts)
      [] source_type = "financial_news" -> get_new_articles(ps, posts)
      [] source_type = "sec_filing"     -> get_new_filings(ps, posts)
      [] source_type = "earnings_call"  -> get_new_transcripts(ps, posts)

-----------------------------------------------------------------------------
(* main.py: process_posts.  db is the record of the three tables it writes. *)

\* the identifier process_posts marks (main.py line 98)
ProcessedId(post, source_type) ==
    IF source_type = "vc_blog" THEN UrlId(Get(post.url, ""))
    ELSE <<Get(post.source_name, "unknown"), "-", Get(post.year, ""), "-Q",
           Get(post.quarter, "")>>

\* mention_date = published_date or date or now (main.py line 74)
MentionDate(post, day) ==
    IF post.published_date # NoDate THEN post.published_date
    ELSE IF post.date # NoDate THEN post.date
    ELSE day

\* the inner loop over the (keyword, count) pairs of one post
RECURSIVE StoreKeywords(_, _, _, _, _)
StoreKeywords(db, kwlist, post, source_type, day) ==
    IF kwlist = <<>> THEN db
    ELSE LET term == Head(kwlist)[1]
             count == Head(kwlist)[2]
         IN  IF count < 1
             THEN StoreKeywords(db, Tail(kwlist), post, source_type, day)
             ELSE LET g == get_or_create_keyword(db.keywords, term, <<>>, day)
                      ms == add_mention(db.mentions, g.id, source_type,
                                        Get(post.source_name, "unknown"),
                                        MentionDate(post, day), post.text,
                                        Get(post.url, ""))
                  IN  StoreKeywords([db EXCEPT !.keywords = g.keywords,
                                               !.mentions = ms],
                                    Tail(kwlist), post, source_type, day)

\* one pass of the outer loop: store the post's keywords, then mark it
process_post(db, post, source_type, day) ==
    LET stored == StoreKeywords(db, extract_keywords(post.text), post, source_type, day)
    IN  [stored EXCEPT !.processed_sources =
            mark_source_processed(stored.processed_sources, source_type,
                                  ProcessedId(post, source_type), day)]

RECURSIVE process_posts(_, _, _, _)
process_posts(db, posts, source_type, day) ==
    IF posts = <<>> THEN db
    ELSE process_posts(process_post(db, Head(posts), source_type, day),
                       Tail(posts), source_type, day)

Db == [keywords |-> keywords, mentions |-> mentions,
       processed_sources |-> processed_sources]

EmptyDb == [keywords |-> {}, mentions |-> {}, processed_sources |-> {}]

-----------------------------------------------------------------------------
(* src/database/init.py and src/database/queries.py: the occurrence store   *)

\* the rows init_database inserts into sources
Sources == {[id |-> 1, name |-> "hackernews"],
            [id |-> 2, name |-> "arxiv"],
            [id |-> 3, name |-> "github"]}

SourceKnown(source_name) == \E r \in Sources : r.name = source_name

\* get_source_id: raises ValueError for a name SourceKnown rejects
get_source_id(source_name) == (CHOOSE r \in Sources : r.name = source_name).id

\* the upsert overwriting the count instead of adding to it
RECURSIVE StoreItemsOverwrite(_, _, _, _)
StoreItemsOverwrite(st, items, source_id, collection_date) ==
    IF items = <<>> THEN st
    ELSE LET term == Lower(Head(items)[1])
             count == Head(items)[2]
             ts == IF \E r \in st.terms : r.term = term
                   THEN st.terms
                   ELSE st.terms \cup {[id |-> NextId(st.terms), term |-> term,
                                        first_seen |-> collection_date]}
             term_id == (CHOOSE r \in ts : r.term = term).id
             hit == {r \in st.term_occurrences :
                        /\ r.term_id = term_id
                        /\ r.source_id = source_id
                        /\ r.date = collection_date}
             os == IF hit # {}
                   THEN {IF r \in hit THEN [r EXCEPT !.count = count] ELSE r
                           : r \in st.term_occurrences}
                   ELSE st.term_occurrences \cup
                        {[id |-> NextId(st.term_occurrences), term_id |-> term_id,
                          source_id |-> source_id, date |-> collection_date,
                          count |-> count]}
         IN  StoreItemsOverwrite([terms |-> ts, term_occurrences |-> os],
                                 Tail(items), source_id, collection_date)

\* the loop of store_terms over terms.items(); st is the record of both tables
RECURSIVE StoreItems(_, _, _, _)
StoreItems(st, items, source_id, collection_date) ==
    IF items = <<>> THEN st
    ELSE LET term == Lower(Head(items)[1])
             count == Head(items)[2]
             \* INSERT OR IGNORE INTO terms (term, first_seen)
             ts == IF \E r \in st.terms : r.term = term
                   THEN st.terms
                   ELSE st.terms \cup {[id |-> NextId(st.terms), term |-> term,
                                        first_seen |-> collection_date]}
             term_id == (CHOOSE r \in ts : r.term = term).id
             hit == {r \in st.term_occurrences :
                        /\ r.term_id = term_id
                        /\ r.source_id = source_id
                        /\ r.date = collection_date}
             \* INSERT ... ON CONFLICT DO UPDATE SET count = count + excluded.count
             os == IF hit # {}
                   THEN {IF r \in hit THEN [r EXCEPT !.count = r.count + count] ELSE r
                           : r \in st.term_occurrences}
                   ELSE st.term_occurrences \cup
                        {[id |-> NextId(st.term_occurrences), term_id |-> term_id,
                          source_id |-> source_id, date |-> collection_date,
                          count |-> count]}
         IN  StoreItems([terms |-> ts, term_occurrences |-> os], Tail(items),
                        source_id, collection_date)

\* store_terms; collection_date NoDate stands for None (date.today() is used)
store_terms(st, source_name, items, collection_date, day) ==
    IF ~SourceKnown(source_name) THEN st
    ELSE StoreItems(st, items, get_source_id(source_name),
                    IF collection_date = NoDate THEN day ELSE collection_date)

St == [terms |-> terms, term_occurrences |-> term_occurrences]

EmptySt == [terms |-> {}, term_occurrences |-> {}]

\* the term -> count dictionaries the collectors pass, as their items() lists
TermDicts == {<<<<TermAi, 2>>>>,
              <<<<TermAI, 1>>, <<TermAi, 2>>, <<TermFx, 1>>>>}

StoreSources == {"hackernews", "arxiv", "reddit"}

StoreDates == {NoDate, 0}

-----------------------------------------------------------------------------
(* processing/scoring.py: class KeywordScorer.  Scores and weights are in   *)
(* hundredths; a percent change is the exact fraction num / den, den > 0.   *)

Scale == 100
\* VC_BLOG_WEIGHT = 10, YC_COMPANY_WEIGHT = 0.5, EARNINGS_WEIGHT = 1
VC_BLOG_WEIGHT == 10 * Scale
YC_COMPANY_WEIGHT == Scale \div 2
EARNINGS_WEIGHT == 1 * Scale
EARNINGS_CAP == 50
\* CROSS_TIER_BONUS = 50, NEW_KEYWORD_BONUS = 20, TREND_MULTIPLIER = 0.5
CROSS_TIER_BONUS == 50 * Scale
NEW_KEYWORD_BONUS == 20 * Scale
TREND_MULTIPLIER == Scale \div 2
TREND_THRESHOLD == 10
DEFAULT_LIMIT == 20

\* round(n / d) for d > 0, a tie going to the even neighbour (Python's round)
RoundHalfEven(n, d) ==
    LET q == n \div d
        r == n % d
    IN  IF 2 * r < d THEN q
        ELSE IF 2 * r > d THEN q + 1
        ELSE IF q % 2 = 0 THEN q ELSE q + 1

\* the guard dropped for a previous score of zero: the division raises
calculate_trend_unguarded(prev_score, current_score) ==
    IF prev_score = None THEN [trend |-> "new", num |-> 0, den |-> 1]
    ELSE IF prev_score[1] = 0 THEN [trend |-> "ZeroDivisionError", num |-> 0, den |-> 1]
    ELSE LET prev == prev_score[1]
             num == IF prev > 0 THEN (current_score - prev) * 100
                    ELSE (prev - current_score) * 100
             den == IF prev > 0 THEN prev ELSE -prev
         IN  IF num > TREND_THRESHOLD * den THEN [trend |-> "up", num |-> num, den |-> den]
             ELSE IF num < -TREND_THRESHOLD * den
                  THEN [trend |-> "down", num |-> num, den |-> den]
                  ELSE [trend |-> "stable", num |-> num, den |-> den]

\* _calculate_trend with the thresholds inclusive
calculate_trend_inclusive(prev_score, current_score) ==
    IF prev_score = None \/ prev_score = Some(0)
    THEN [trend |-> "new", num |-> 0, den |-> 1]
    ELSE LET prev == prev_score[1]
             num == IF prev > 0 THEN (current_score - prev) * 100
                    ELSE (prev - current_score) * 100
             den == IF prev > 0 THEN prev ELSE -prev
         IN  IF num >= TREND_THRESHOLD * den THEN [trend |-> "up", num |-> num, den |-> den]
             ELSE IF num <= -TREND_THRESHOLD * den
                  THEN [trend |-> "down", num |-> num, den |-> den]
                  ELSE [trend |-> "stable", num |-> num, den |-> den]

\* _calculate_trend
calculate_trend(prev_score, current_score) ==
    IF prev_score = None \/ prev_score = Some(0)
    THEN [trend |-> "new", num |-> 0, den |-> 1]
    ELSE LET prev == prev_score[1]
             \* ((current_score - prev_score) / prev_score) * 100
             num == IF prev > 0 THEN (current_score - prev) * 100
                    ELSE (prev - current_score) * 100
             den == IF prev > 0 THEN prev ELSE -prev
         IN  IF num > TREND_THRESHOLD * den THEN [trend |-> "up", num |-> num, den |-> den]
             ELSE IF num < -TREND_THRESHOLD * den
                  THEN [trend |-> "down", num |-> num, den |-> den]
                  ELSE [trend |-> "stable", num |-> num, den |-> den]

\* unique_vc_sources * VC_BLOG_WEIGHT + yc_mentions * YC_COMPANY_WEIGHT
Tier1Score(vc_sources, yc_mentions) ==
    Cardinality(vc_sources) * VC_BLOG_WEIGHT + yc_mentions * YC_COMPANY_WEIGHT

\* the cap left out
Tier3ScoreUncapped(earnings_mentions) == earnings_mentions * EARNINGS_WEIGHT

\* min(earnings_mentions, EARNINGS_CAP) * EARNINGS_WEIGHT
Tier3Score(earnings_mentions) == Min2(earnings_mentions, EARNINGS_CAP) * EARNINGS_WEIGHT

\* "or" for "and"
IsCrossTierEither(tier1_mentions, earnings_mentions) ==
    tier1_mentions > 0 \/ earnings_mentions > 0

\* is_cross_tier = tier1_mentions > 0 and earnings_mentions > 0
IsCrossTier(tier1_mentions, earnings_mentions) ==
    tier1_mentions > 0 /\ earnings_mentions > 0

\* the momentum applied whatever the direction
WithTrendBonusAnyDirection(score, t) ==
    IF t.trend # "new"
    THEN RoundHalfEven(score * t.den + t.num * TREND_MULTIPLIER, t.den)
    ELSE score

\* round(score + percent_change * TREND_MULTIPLIER, 2) when the trend is up
WithTrendBonus(score, t) ==
    IF t.trend = "up" /\ t.num > 0
    THEN RoundHalfEven(score * t.den + t.num * TREND_MULTIPLIER, t.den)
    ELSE score

\* a keyword counted as new in the week after its first week as well
calculate_score_new_for_two_weeks(ws, keyword_id, term, vc_mentions, yc_mentions, earnings_mentions, vc_sources, earnings_sources, first_seen, current_week, urls) ==
    LET tier1_mentions == vc_mentions + yc_mentions
        is_cross_tier == IsCrossTier(tier1_mentions, earnings_mentions)
        is_new == first_seen >= current_week - DaysPerWeek
        score == Tier1Score(vc_sources, yc_mentions)
                 + Tier3Score(earnings_mentions)
                 + (IF is_cross_tier THEN CROSS_TIER_BONUS ELSE 0)
                 + (IF is_new THEN NEW_KEYWORD_BONUS ELSE 0)
        prev_score == get_previous_week_score(ws, keyword_id, current_week)
        t == calculate_trend(prev_score, score)
    IN  [term |-> term,
         keyword_id |-> keyword_id,
         score |-> WithTrendBonus(score, t),
         tier1_mentions |-> tier1_mentions,
         tier3_mentions |-> earnings_mentions,
         yc_mentions |-> yc_mentions,
         vc_sources |-> vc_sources,
         earnings_sources |-> earnings_sources,
         first_seen |-> first_seen,
         is_cross_tier |-> is_cross_tier,
         trend |-> IF ~is_new THEN t.trend ELSE "new",
         \* round(percent_change, 1), in tenths of a percent
         percent_change |-> RoundHalfEven(t.num * 10, t.den),
         urls |-> urls]

\* calculate_score; vc_sources, earnings_sources and urls are passed as sets
calculate_score(ws, keyword_id, term, vc_mentions, yc_mentions, earnings_mentions, vc_sources, earnings_sources, first_seen, current_week, urls) ==
    LET tier1_mentions == vc_mentions + yc_mentions
        is_cross_tier == IsCrossTier(tier1_mentions, earnings_mentions)
        is_new == first_seen >= current_week
        score == Tier1Score(vc_sources, yc_mentions)
                 + Tier3Score(earnings_mentions)
                 + (IF is_cross_tier THEN CROSS_TIER_BONUS ELSE 0)
                 + (IF is_new THEN NEW_KEYWORD_BONUS ELSE 0)
        prev_score == get_previous_week_score(ws, keyword_id, current_week)
        t == calculate_trend(prev_score, score)
    IN  [term |-> term,
         keyword_id |-> keyword_id,
         score |-> WithTrendBonus(score, t),
         tier1_mentions |-> tier1_mentions,
         tier3_mentions |-> earnings_mentions,
         yc_mentions |-> yc_mentions,
         vc_sources |-> vc_sources,
         earnings_sources |-> earnings_sources,
         first_seen |-> first_seen,
         is_cross_tier |-> is_cross_tier,
         trend |-> IF ~is_new THEN t.trend ELSE "new",
         \* round(percent_change, 1), in tenths of a percent
         percent_change |-> RoundHalfEven(t.num * 10, t.den),
         urls |-> urls]

\* the loop of score_all_keywords over the rows of get_all_keywords_with_stats:
\* acc holds weekly_scores and the list of scores so far
RECURSIVE ScoreEach(_, _, _, _)
ScoreEach(acc, stats, ms, week_start) ==
    IF stats = <<>> THEN acc
    ELSE LET kw == Head(stats)
             sources == get_keyword_sources(ms, kw.id)
             score == calculate_score(acc.weekly_scores, kw.id, kw.term,
                                      kw.vc_mentions, kw.yc_mentions,
                                      kw.earnings_mentions, sources.vc_blog,
                                      sources.earnings_call, kw.first_seen,
                                      week_start, sources.urls)
         IN  ScoreEach([weekly_scores |->
                           save_weekly_score(acc.weekly_scores, kw.id, week_start,
                                             score.tier1_mentions,
                                             score.tier3_mentions,
                                             score.yc_mentions, score.score),
                        scores |-> Append(acc.scores, score)],
                       Tail(stats), ms, week_start)

\* scores.sort(key=score, reverse=True): stable, equal scores keep their order
RECURSIVE SortByScoreDesc(_)
SortByScoreDesc(scores) ==
    IF scores = <<>> THEN <<>>
    ELSE LET best == CHOOSE i \in DOMAIN scores :
                         /\ \A j \in DOMAIN scores : scores[j].score <= scores[i].score
                         /\ \A j \in 1..(i - 1) : scores[j].score < scores[i].score
             rest == [j \in 1..(Len(scores) - 1) |->
                         IF j < best THEN scores[j] ELSE scores[j + 1]]
         IN  <<scores[best]>> \o SortByScoreDesc(rest)

\* the statistics restricted to the mentions of the scored week
score_all_keywords_this_week(kws, ms, ws, week_start) ==
    LET done == ScoreEach([weekly_scores |-> ws, scores |-> <<>>],
                          get_all_keywords_with_stats(kws, ms, week_start), ms, week_start)
    IN  [weekly_scores |-> done.weekly_scores,
         scores |-> SortByScoreDesc(done.scores)]

score_all_keywords(kws, ms, ws, week_start) ==
    LET done == ScoreEach([weekly_scores |-> ws, scores |-> <<>>],
                          get_all_keywords_with_stats(kws, ms, NoDate), ms, week_start)
    IN  [weekly_scores |-> done.weekly_scores,
         scores |-> SortByScoreDesc(done.scores)]

\* the final else left out
TierOfNoFallback(score) ==
    IF score.is_cross_tier THEN "validated"
    ELSE IF score.tier1_mentions > 0 /\ score.tier3_mentions = 0 THEN "emerging"
    ELSE IF score.tier3_mentions > score.tier1_mentions THEN "mainstream"
    ELSE "none"

\* the if / elif chain of get_tier_keywords: the bucket a score is appended to
TierOf(score) ==
    IF score.is_cross_tier THEN "validated"
    ELSE IF score.tier1_mentions > 0 /\ score.tier3_mentions = 0 THEN "emerging"
    ELSE IF score.tier3_mentions > score.tier1_mentions THEN "mainstream"
    ELSE "emerging"

\* the three lists before truncation
TierLists(scores) ==
    [emerging |-> SelectSeq(scores, LAMBDA x : TierOf(x) = "emerging"),
     validated |-> SelectSeq(scores, LAMBDA x : TierOf(x) = "validated"),
     mainstream |-> SelectSeq(scores, LAMBDA x : TierOf(x) = "mainstream")]

\* lst[:limit]
Truncate(lst, limit) == SubSeq(lst, 1, Min2(Len(lst), limit))

get_tier_keywords(scores, limit) ==
    [emerging |-> Truncate(TierLists(scores).emerging, limit),
     validated |-> Truncate(TierLists(scores).validated, limit),
     mainstream |-> Truncate(TierLists(scores).mainstream, limit)]

-----------------------------------------------------------------------------
(* Initial state: freshly created, empty databases *)

Init ==
    /\ today = 0
    /\ keywords = {}
    /\ mentions = {}
    /\ weekly_scores = {}
    /\ processed_sources = {}
    /\ terms = {}
    /\ term_occurrences = {}
    /\ pc = "idle"
    /\ args = {}
    /\ runs = 0
    /\ fnArgs = <<>>
    /\ ret = <<>>
    /\ procCount = [p \in AllPosts |-> 0]
    /\ procRuns = [p \in AllPosts |-> {}]
    /\ scoreLog = <<>>
    /\ storeCalls = <<>>
    /\ marked = <<>>
    /\ calls = 0

-----------------------------------------------------------------------------
(* Clients calling the stores directly, in any order and at any time *)

ApiTerms == {TermAi, TermAI, TermFx}

ApiIdentifiers == {UrlId("https://a16z/p1"), <<"MSFT", "-", "2024", "-Q", "3">>}

ApiMarkTypes == {"vc_blog", "earnings_call"}

ApiTick ==
    /\ calls < MaxCalls
    /\ \E d \in ClockDays : d > today /\ today' = d
    /\ calls' = calls + 1
    /\ UNCHANGED <<keywords, mentions, weekly_scores, processed_sources, terms,
                   term_occurrences, ctl, ret, procCount, hist,
                   storeCalls, marked>>

ApiGetOrCreateKeyword(term) ==
    /\ calls < MaxCalls
    /\ LET g == get_or_create_keyword(keywords, term, <<>>, today) IN
         /\ keywords' = g.keywords
         /\ ret' = <<"get_or_create_keyword", term, g.id>>
    /\ calls' = calls + 1
    /\ UNCHANGED <<today, mentions, weekly_scores, processed_sources, terms,
                   term_occurrences, ctl, procCount, hist,
                   storeCalls, marked>>

ApiMarkSourceProcessed(source_type, source_identifier) ==
    /\ calls < MaxCalls
    /\ processed_sources' = mark_source_processed(processed_sources, source_type,
                                                  source_identifier, today)
    /\ marked' = Append(marked, <<source_type, source_identifier>>)
    /\ ret' = <<"mark_source_processed", source_type, source_identifier>>
    /\ calls' = calls + 1
    /\ UNCHANGED <<today, keywords, mentions, weekly_scores, terms,
                   term_occurrences, ctl, procCount, hist,
                   storeCalls>>

ApiProcessPosts(source_type, posts) ==
    /\ calls < MaxCalls
    /\ LET db == process_posts(Db, posts, source_type, today) IN
         /\ Cardinality(db.mentions) <= MaxMentions
         /\ keywords' = db.keywords
         /\ mentions' = db.mentions
         /\ processed_sources' = db.processed_sources
    /\ procCount' = [p \in AllPosts |-> procCount[p] + Occurrences(posts, p)]
    /\ marked' = marked \o [i \in DOMAIN posts |->
                                <<source_type, ProcessedId(posts[i], source_type)>>]
    /\ ret' = <<"process_posts">>
    /\ calls' = calls + 1
    /\ UNCHANGED <<today, weekly_scores, terms, term_occurrences, ctl,
                   hist, storeCalls>>

ApiStoreTerms(source_name, items, collection_date) ==
    /\ calls < MaxCalls
    /\ Len(storeCalls) < MaxStoreCalls
    /\ LET st == store_terms(St, source_name, items, collection_date, today) IN
         /\ terms' = st.terms
         /\ term_occurrences' = st.term_occurrences
    /\ ret' = IF SourceKnown(source_name) THEN <<"store_terms", Len(items)>>
              ELSE <<"ValueError">>
    /\ storeCalls' = Append(storeCalls,
                            [source_name |-> source_name, items |-> items,
                             collection_date |-> IF collection_date = NoDate
                                                 THEN today ELSE collection_date])
    /\ calls' = calls + 1
    /\ UNCHANGED <<today, keywords, mentions, weekly_scores, processed_sources,
                   ctl, procCount, hist, marked>>

NextDb ==
    \/ ApiTick
    \/ \E term \in ApiTerms : ApiGetOrCreateKeyword(term)
    \/ \E t \in ApiMarkTypes, i \in ApiIdentifiers : ApiMarkSourceProcessed(t, i)

SpecDb == Init /\ [][NextDb]_vars

NextIngest ==
    \/ ApiTick
    \/ \E p \in AllPosts : ApiProcessPosts(p.source_type, <<p>>)
    \/ \E src \in StoreSources, items \in TermDicts, d \in StoreDates :
          ApiStoreTerms(src, items, d)

SpecIngest == Init /\ [][NextIngest]_vars

-----------------------------------------------------------------------------
(* Properties of the stores under direct calls *)

\* the posts process_posts has handled so far are n copies of p and nothing else
OnlyPost(p, n) ==
    /\ procCount[p] = n
    /\ \A q \in AllPosts \ {p} : procCount[q] = 0

\* the store_terms calls made so far are n calls with the arguments of c
OnlyStoreCall(c, n) ==
    /\ Len(storeCalls) = n
    /\ \A i \in DOMAIN storeCalls : storeCalls[i] = c

StatsOnce(p) ==
    LET db == process_posts(EmptyDb, <<p>>, p.source_type, 0)
    IN  Range(get_all_keywords_with_stats(db.keywords, db.mentions, NoDate))

StatsNow == Range(get_all_keywords_with_stats(keywords, mentions, NoDate))

\* C2: processing the same document n times with no processed-marker check in
\* between (n = 2 in particular) leaves every keyword's per-source-type mention
\* count at n times the count of processing it once, and n identical
\* store_terms calls leave every term_occurrences count at n times the count
\* of one call, with the rows of one call and no others.
C2_RepeatMultipliesCounts ==
    /\ \A p \in AllPosts, n \in 1..MaxCalls :
          OnlyPost(p, n) =>
             /\ {r.term : r \in StatsNow} = {r.term : r \in StatsOnce(p)}
             /\ \A r \in StatsNow, o \in StatsOnce(p) :
                   r.term = o.term =>
                      /\ r.vc_mentions = n * o.vc_mentions
                      /\ r.yc_mentions = n * o.yc_mentions
                      /\ r.earnings_mentions = n * o.earnings_mentions
    /\ \A n \in 1..MaxStoreCalls :
          (Len(storeCalls) = n /\ OnlyStoreCall(storeCalls[1], n)) =>
             LET c == storeCalls[1]
                 once == store_terms(EmptySt, c.source_name, c.items,
                                     c.collection_date, 0)
             IN  /\ terms = once.terms
                 /\ term_occurrences =
                       {[r EXCEPT !.count = n * r.count] : r \in once.term_occurrences}

\* a document processed twice and a store_terms call repeated, both with effect
C2_Witness ==
    /\ \E p \in AllPosts : OnlyPost(p, 2) /\ mentions # {}
    /\ Len(storeCalls) = 2
    /\ OnlyStoreCall(storeCalls[1], 2)
    /\ term_occurrences # {}

UniquePairs ==
    \A r1, r2 \in processed_sources :
        (r1.source_type = r2.source_type
         /\ r1.source_identifier = r2.source_identifier) => r1 = r2

MarkedIffProcessed ==
    \A t \in ApiMarkTypes, i \in ApiIdentifiers :
        is_source_processed(processed_sources, t, i) <=> <<t, i>> \in Range(marked)

RepeatedMarkIsNoOp ==
    \A t \in ApiMarkTypes, i \in ApiIdentifiers :
        (ApiMarkSourceProcessed(t, i) /\ <<t, i>> \in Range(marked))
            => processed_sources' = processed_sources

\* C9: mark_source_processed is idempotent: processed_sources holds at most one
\* row per (source_type, source_identifier), a repeated call for a marked pair
\* changes nothing, and is_source_processed is true for a pair exactly when it
\* has been marked at least once.
C9_MarkIdempotent ==
    /\ [](UniquePairs /\ MarkedIffProcessed)
    /\ [][RepeatedMarkIsNoOp]_vars

\* the same pair marked twice, on different days
C9_Witness ==
    /\ \E i, j \in DOMAIN marked : i < j /\ marked[i] = marked[j]
    /\ \E r \in processed_sources : r.processed_date < today
    /\ ret[1] = "mark_source_processed"

\* C10: no two keywords rows share the same normalized (lower-cased) text
C10_UniqueNormalizedText ==
    \A r1, r2 \in keywords : r1.normalized_term = r2.normalized_term => r1 = r2

-----------------------------------------------------------------------------
(* The scorer called on its own: calculate_score on drawn arguments against *)
(* a weekly_scores table holding at most the previous week's row            *)

ScoredKeyword == 1
ScoredWeek == DaysPerWeek

VcSourceSets == {{}, {"a16z"}, {"a16z", "sequoia"}}

\* scores a previous run can have saved (hundredths)
PrevScoreValues == {0, 50, 2000, 2050, 4000, 8000, 10400, 11900}

PrevTables ==
    {{}} \cup {{[id |-> 1, keyword_id |-> ScoredKeyword, week_start |-> 0,
                 tier1_mentions |-> 0, tier3_mentions |-> 0, yc_mentions |-> 0,
                 score |-> v]} : v \in PrevScoreValues}

ScoreArgs ==
    [vc_mentions : 0..MaxVcMentions, yc_mentions : 0..MaxYcMentions,
     earnings_mentions : 0..MaxEarnings, vc_sources : VcSourceSets,
     first_seen : {MidWeek, ScoredWeek, ScoredWeek + MidWeek}]

InitScore ==
    /\ today = ScoredWeek + MidWeek
    /\ keywords = {}
    /\ mentions = {}
    /\ weekly_scores \in PrevTables
    /\ processed_sources = {}
    /\ terms = {}
    /\ term_occurrences = {}
    /\ pc = "idle"
    /\ args = {}
    /\ runs = 0
    /\ fnArgs \in ScoreArgs
    /\ ret = <<>>
    /\ procCount = [p \in AllPosts |-> 0]
    /\ procRuns = [p \in AllPosts |-> {}]
    /\ scoreLog = <<>>
    /\ storeCalls = <<>>
    /\ marked = <<>>
    /\ calls = 0

CalculateScore ==
    /\ ret = <<>>
    /\ ret' = <<"calculate_score",
                calculate_score(weekly_scores, ScoredKeyword, TermAi,
                                fnArgs.vc_mentions, fnArgs.yc_mentions,
                                fnArgs.earnings_mentions, fnArgs.vc_sources, {},
                                fnArgs.first_seen, get_week_start(today), {})>>
    /\ UNCHANGED <<today, keywords, mentions, weekly_scores, processed_sources,
                   terms, term_occurrences, ctl, procCount, hist, storeCalls,
                   marked, calls>>

NextScore == CalculateScore

SpecScore == InitScore /\ [][NextScore]_vars

-----------------------------------------------------------------------------
(* The tier classifier called on its own, on any list of scored terms *)

TierScores ==
    [tier1_mentions : 0..MaxTier, tier3_mentions : 0..MaxTier,
     is_cross_tier : BOOLEAN]

\* lists of scored terms, the i-th being keyword i
TierArgs ==
    UNION {{[i \in 1..n |-> [keyword_id |-> i,
                             tier1_mentions |-> f[i].tier1_mentions,
                             tier3_mentions |-> f[i].tier3_mentions,
                             is_cross_tier |-> f[i].is_cross_tier]]
              : f \in [1..n -> TierScores]} : n \in 0..MaxScores}

InitTier ==
    /\ today = 0
    /\ keywords = {}
    /\ mentions = {}
    /\ weekly_scores = {}
    /\ processed_sources = {}
    /\ terms = {}
    /\ term_occurrences = {}
    /\ pc = "idle"
    /\ args = {}
    /\ runs = 0
    /\ fnArgs \in TierArgs
    /\ ret = <<>>
    /\ procCount = [p \in AllPosts |-> 0]
    /\ procRuns = [p \in AllPosts |-> {}]
    /\ scoreLog = <<>>
    /\ storeCalls = <<>>
    /\ marked = <<>>
    /\ calls = 0

GetTierKeywords(limit) ==
    /\ ret = <<>>
    /\ ret' = <<"get_tier_keywords", limit, get_tier_keywords(fnArgs, limit)>>
    /\ UNCHANGED <<today, keywords, mentions, weekly_scores, processed_sources,
                   terms, term_occurrences, ctl, procCount, hist, storeCalls,
                   marked, calls>>

NextTier == \E limit \in {1, DEFAULT_LIMIT} : GetTierKeywords(limit)

SpecTier == InitTier /\ [][NextTier]_vars

-----------------------------------------------------------------------------
(* Properties of the scorer and of the tier classifier *)

\* the positions at which the three untruncated lists hold x
Placements(x, lists) ==
    {<<b, i>> \in {"emerging", "validated", "mainstream"} \X (1..MaxScores + 1) :
        i \in DOMAIN lists[b] /\ lists[b][i] = x}

\* C3: before truncation every scored term is in exactly one of the buckets
\* emerging / validated / mainstream, whatever its tier1_mentions,
\* tier3_mentions and is_cross_tier are.
C3_TierPartition ==
    ret # <<>> =>
        /\ \A i \in DOMAIN fnArgs :
              Cardinality(Placements(fnArgs[i], TierLists(fnArgs))) = 1
        /\ \A b \in {"emerging", "validated", "mainstream"} :
              /\ Len(ret[3][b]) <= ret[2]
              /\ ret[3][b] = SubSeq(TierLists(fnArgs)[b], 1, Len(ret[3][b]))

\* a term with no mentions at all (the final else) classified beside another
C3_Witness ==
    /\ ret # <<>>
    /\ Len(fnArgs) = MaxScores
    /\ \E i \in DOMAIN fnArgs :
          /\ ~fnArgs[i].is_cross_tier
          /\ fnArgs[i].tier1_mentions = 0
          /\ fnArgs[i].tier3_mentions = 0
          /\ \E j \in DOMAIN TierLists(fnArgs).emerging :
                 TierLists(fnArgs).emerging[j] = fnArgs[i]

\* C4: in every KeywordScore calculate_score returns, is_cross_tier holds
\* exactly when tier1_mentions > 0 and tier3_mentions > 0.
C4_CrossTierIff ==
    ret # <<>> =>
        (ret[2].is_cross_tier <=> (ret[2].tier1_mentions > 0 /\ ret[2].tier3_mentions > 0))

\* a cross-tier score whose tier-1 mentions are YC mentions only
C4_Witness ==
    /\ ret # <<>>
    /\ ret[2].is_cross_tier
    /\ fnArgs.vc_mentions = 0
    /\ fnArgs.yc_mentions > 0

\* the reference formula, in hundredths, with the weights of the specification
RefRaw(a) ==
    10 * 100 * Cardinality(a.vc_sources)
    + 50 * a.yc_mentions
    + 100 * (IF a.earnings_mentions < 50 THEN a.earnings_mentions ELSE 50)
    + (IF a.vc_mentions + a.yc_mentions > 0 /\ a.earnings_mentions > 0 THEN 5000 ELSE 0)
    + (IF a.first_seen >= ScoredWeek THEN 2000 ELSE 0)

\* the previous period's score, absent (<<>>) when the table has no row
RefPrev == IF weekly_scores = {} THEN <<>>
           ELSE <<(CHOOSE r \in weekly_scores : TRUE).score>>

NoHistory == RefPrev = <<>> \/ RefPrev = <<0>>

\* the trend is up: percent_change = (raw - prev) / prev * 100 exceeds 10
RefUp(a) == ~NoHistory /\ (RefRaw(a) - RefPrev[1]) * 100 > 10 * RefPrev[1]

\* the integer nearest to n / d (d > 0), the even one of two equally near
Nearest(n, d) ==
    CHOOSE r \in ((n \div d) - 1)..((n \div d) + 1) :
        LET off == IF r * d >= n THEN r * d - n ELSE n - r * d IN
        2 * off < d \/ (2 * off = d /\ r % 2 = 0)

\* raw + 0.5 * percent_change when the trend is up, to two decimals
RefScore(a) ==
    IF RefUp(a)
    THEN Nearest(RefRaw(a) * RefPrev[1] + 50 * (RefRaw(a) - RefPrev[1]) * 100, RefPrev[1])
    ELSE RefRaw(a)

Example1 ==
    /\ fnArgs.vc_sources = {"a16z", "sequoia"}
    /\ fnArgs.yc_mentions = 0
    /\ fnArgs.earnings_mentions = 0
    /\ fnArgs.vc_mentions = 2
    /\ fnArgs.first_seen >= ScoredWeek
    /\ weekly_scores = {}

Example2 ==
    /\ fnArgs.vc_sources = {"a16z", "sequoia"}
    /\ fnArgs.yc_mentions = 0
    /\ fnArgs.earnings_mentions = 34
    /\ fnArgs.vc_mentions = 2
    /\ fnArgs.first_seen < ScoredWeek
    /\ RefPrev = <<8000>>

\* C6: with no prior-period score, or a prior score of exactly zero,
\* calculate_score reports trend 'new' and percent_change 0 and adds no trend
\* bonus, whatever the current score is.
C6_NoHistoryIsNew ==
    (ret # <<>> /\ NoHistory) =>
        /\ ret[2].trend = "new"
        /\ ret[2].percent_change = 0
        /\ ret[2].score = RefRaw(fnArgs)

\* a prior score of exactly zero under a positive current score of an old term
C6_Witness ==
    /\ ret # <<>>
    /\ RefPrev = <<0>>
    /\ fnArgs.first_seen < ScoredWeek
    /\ ret[2].score > 0

\* C7: the score calculate_score returns is the reference formula (the trend
\* being the one computed from the score before the trend bonus against the
\* previous period's score, the result rounded to two decimals); the two
\* scenarios give 40 / emerging / 'new' and 119 / validated / 'up' with
\* percent_change 30.
C7_ReferenceFormula ==
    ret # <<>> =>
        /\ ret[2].score = RefScore(fnArgs)
        /\ Example1 => /\ ret[2].score = 4000
                       /\ ret[2].trend = "new"
                       /\ TierOf(ret[2]) = "emerging"
        /\ Example2 => /\ RefRaw(fnArgs) = 10400
                       /\ ret[2].percent_change = 300
                       /\ ret[2].score = 11900
                       /\ ret[2].trend = "up"
                       /\ TierOf(ret[2]) = "validated"

\* the second scenario scored
C7_Witness == ret # <<>> /\ Example2 /\ ret[2].score = 11900

-----------------------------------------------------------------------------
(* main.py: one run of main() after another.  pc is the step the run is at. *)

OnlyFlags == {"--vc-only", "--yc-only", "--news-only", "--sec-only", "--earnings-only"}

\* the command lines considered: no flag, or any single flag
ArgSets == {{}} \cup {{f} : f \in OnlyFlags \cup {"--report-only", "--no-yc", "--no-news"}}

specific_only == args \cap OnlyFlags # {}

\* run_scoring: score every keyword for the current week, then classify
DoScoring ==
    LET week_start == get_week_start(today)
        r == score_all_keywords(keywords, mentions, weekly_scores, week_start)
    IN  /\ weekly_scores' = r.weekly_scores
        /\ ret' = <<"run_scoring", get_tier_keywords(r.scores, DEFAULT_LIMIT)>>
        /\ scoreLog' = Append(scoreLog, [run |-> runs, week_start |-> week_start,
                                       mentions |-> Cardinality(mentions),
                                       scores |-> r.scores])

\* the clock moves on between runs
Tick ==
    /\ pc = "idle"
    /\ \E d \in ClockDays : d > today /\ today' = d
    /\ UNCHANGED <<keywords, mentions, weekly_scores, processed_sources, terms,
                   term_occurrences, ctl, ret, procCount, hist, storeCalls,
                   marked, calls>>

Start(a) ==
    /\ pc = "idle"
    /\ runs < MaxRuns
    /\ args' = a
    /\ runs' = runs + 1
    /\ pc' = IF "--report-only" \in a THEN "scoring" ELSE "vc"
    /\ UNCHANGED <<today, keywords, mentions, weekly_scores, processed_sources,
                   terms, term_occurrences, fnArgs, ret, procCount, hist,
                   storeCalls, marked, calls>>

\* a step main() does not take with these arguments
SkipStep(next) ==
    /\ pc' = next
    /\ UNCHANGED <<today, keywords, mentions, weekly_scores, processed_sources,
                   terms, term_occurrences, args, runs, fnArgs, ret, procCount,
                   hist, storeCalls, marked, calls>>

\* run_<source>_scraping: fetch, filter out the processed, process the rest
Scrape(source_type, next) ==
    \E posts \in Batches(source_type) :
        LET new == get_new(processed_sources, source_type, posts)
            db == IF new # <<>> THEN process_posts(Db, new, source_type, today) ELSE Db
        IN  /\ Cardinality(db.mentions) <= MaxMentions
            /\ keywords' = db.keywords
            /\ mentions' = db.mentions
            /\ processed_sources' = db.processed_sources
            /\ procCount' = [p \in AllPosts |-> procCount[p] + Occurrences(new, p)]
            /\ procRuns' = [p \in AllPosts |->
                               IF p \in Range(new) THEN procRuns[p] \cup {runs}
                               ELSE procRuns[p]]
            /\ marked' = marked \o [i \in DOMAIN new |->
                                       <<source_type, ProcessedId(new[i], source_type)>>]
            /\ ret' = <<"scraped", source_type, Len(new)>>
            /\ pc' = next
            /\ UNCHANGED <<today, weekly_scores, terms, term_occurrences, args, runs,
                           fnArgs, scoreLog, storeCalls, calls>>

RunVcScraping ==
    /\ pc = "vc"
    /\ IF "--vc-only" \in args \/ ~specific_only
       THEN Scrape("vc_blog", "yc") ELSE SkipStep("yc")

RunYcScraping ==
    /\ pc = "yc"
    /\ IF "--yc-only" \in args \/ (~specific_only /\ "--no-yc" \notin args)
       THEN Scrape("yc_batch", "news") ELSE SkipStep("news")

RunFinancialNewsScraping ==
    /\ pc = "news"
    /\ IF "--news-only" \in args \/ (~specific_only /\ "--no-news" \notin args)
       THEN Scrape("financial_news", "sec") ELSE SkipStep("sec")

RunSecScraping ==
    /\ pc = "sec"
    /\ IF "--sec-only" \in args
       THEN Scrape("sec_filing", "earnings") ELSE SkipStep("earnings")

\* FMPEarningsScraper() raises ValueError without an API key: the step is skipped
RunEarningsScraping ==
    /\ pc = "earnings"
    /\ IF "--earnings-only" \in args
       THEN \E has_key \in BOOLEAN :
               IF has_key THEN Scrape("earnings_call", "scoring")
               ELSE SkipStep("scoring")
       ELSE SkipStep("scoring")

RunScoring ==
    /\ pc = "scoring"
    /\ DoScoring
    /\ pc' = "report"
    /\ UNCHANGED <<today, keywords, mentions, processed_sources, terms,
                   term_occurrences, args, runs, fnArgs, procCount, procRuns,
                   storeCalls, marked, calls>>

\* main() going back to the extraction steps once the reports are written
RunReportGenerationThenScrape ==
    /\ pc = "report"
    /\ pc' = "vc"
    /\ UNCHANGED <<today, keywords, mentions, weekly_scores, processed_sources,
                   terms, term_occurrences, args, runs, fnArgs, ret, procCount,
                   hist, storeCalls, marked, calls>>

\* run_report_generation writes files only
RunReportGeneration ==
    /\ pc = "report"
    /\ pc' = "idle"
    /\ UNCHANGED <<today, keywords, mentions, weekly_scores, processed_sources,
                   terms, term_occurrences, args, runs, fnArgs, ret, procCount,
                   hist, storeCalls, marked, calls>>

Next ==
    \/ Tick
    \/ \E a \in ArgSets : Start(a)
    \/ RunVcScraping
    \/ RunYcScraping
    \/ RunFinancialNewsScraping
    \/ RunSecScraping
    \/ RunEarningsScraping
    \/ RunScoring
    \/ RunReportGeneration

Spec == Init /\ [][Next]_vars

-----------------------------------------------------------------------------
(* Scoring runs between ingests, over several weeks *)

ApiRunScoring ==
    /\ Len(scoreLog) < MaxScoreRuns
    /\ DoScoring
    /\ UNCHANGED <<today, keywords, mentions, processed_sources, terms,
                   term_occurrences, ctl, procCount, procRuns, storeCalls,
                   marked, calls>>

ScoringPosts == {PostEarnings}

NextScoring ==
    \/ Tick
    \/ \E p \in ScoringPosts : ApiProcessPosts(p.source_type, <<p>>)
    \/ ApiRunScoring

SpecScoring == Init /\ [][NextScoring]_vars

-----------------------------------------------------------------------------
(* Properties of the pipeline and of the weekly scores *)

\* C1: once a document has been processed and marked, the get_new_* filter
\* keeps it out of every later run, for every source type: no document is
\* handed to process_posts in two different runs.
C1_ProcessedInOneRunOnly ==
    \A p \in AllPosts : Cardinality(procRuns[p]) <= 1

\* every score of every scoring run so far
LoggedScores == UNION {Range(scoreLog[i].scores) : i \in DOMAIN scoreLog}

\* C5: every score calculate_score returns during a scoring run and every
\* score saved in weekly_scores is >= 0.
C5_ScoreNonNegative ==
    /\ \A r \in weekly_scores : r.score >= 0
    /\ \A s \in LoggedScores : s.score >= 0

\* a score that fell by more than the threshold against the week before
C5_Witness ==
    /\ \E s \in LoggedScores : s.trend = "down" /\ s.percent_change < 0
    /\ weekly_scores # {}

\* the row of keyword k and week w
RowsOf(ws, k, w) == {r \in ws : r.keyword_id = k /\ r.week_start = w}

\* the score of the latest week strictly before w, <<>> if there is none
Baseline(ws, k, w) ==
    LET earlier == {r \in ws : r.keyword_id = k /\ r.week_start < w} IN
    IF earlier = {} THEN <<>>
    ELSE <<(CHOOSE r \in earlier : \A q \in earlier : q.week_start <= r.week_start).score>>

\* the score before the trend bonus, from the fields of a returned score
RawOf(s, w) ==
    1000 * Cardinality(s.vc_sources) + 50 * s.yc_mentions
    + 100 * (IF s.tier3_mentions < 50 THEN s.tier3_mentions ELSE 50)
    + (IF s.is_cross_tier THEN 5000 ELSE 0)
    + (IF s.first_seen >= w THEN 2000 ELSE 0)

\* trend and percent change (tenths) of score s of week w against baseline b
TrendAgainst(s, w, b) ==
    IF b = <<>> \/ b = <<0>> THEN <<"new", 0>>
    ELSE LET raw == RawOf(s, w) IN
         <<IF s.first_seen >= w THEN "new"
           ELSE IF (raw - b[1]) * 100 > 10 * b[1] THEN "up"
           ELSE IF (raw - b[1]) * 100 < (-10) * b[1] THEN "down"
           ELSE "stable",
           Nearest((raw - b[1]) * 1000, b[1])>>

UniqueWeekRows ==
    \A r1, r2 \in weekly_scores :
        (r1.keyword_id = r2.keyword_id /\ r1.week_start = r2.week_start) => r1 = r2

\* the row of a week holds the counts and score of the last run of that week
RowsHoldLastRun ==
    \A i \in DOMAIN scoreLog :
        (\A j \in (i + 1)..Len(scoreLog) : scoreLog[j].week_start # scoreLog[i].week_start)
        => \A s \in Range(scoreLog[i].scores) :
              \E r \in RowsOf(weekly_scores, s.keyword_id, scoreLog[i].week_start) :
                  /\ r.score = s.score
                  /\ r.tier1_mentions = s.tier1_mentions
                  /\ r.tier3_mentions = s.tier3_mentions
                  /\ r.yc_mentions = s.yc_mentions

\* a scoring run measures each trend against the latest strictly earlier week
BaselineIsLatestEarlierWeek ==
    scoreLog' # scoreLog =>
        LET run == scoreLog'[Len(scoreLog')] IN
        \A s \in Range(run.scores) :
            <<s.trend, s.percent_change>> =
                TrendAgainst(s, run.week_start,
                             Baseline(weekly_scores, s.keyword_id, run.week_start))

\* C8: weekly_scores holds at most one row per (keyword, week_start); a rerun
\* for the same week overwrites the row's counts and score; the baseline of
\* the trend is the score of the latest week strictly before the current
\* week, absent if there is none, never the current week's own row.
C8_OneRowPerWeek ==
    [](UniqueWeekRows /\ RowsHoldLastRun) /\ [][BaselineIsLatestEarlierWeek]_vars

\* a rerun within a week changed the row, and a later week was scored against
\* the nearer of two earlier weeks
C8_Witness ==
    /\ \E i \in DOMAIN scoreLog : \E j \in (i + 1)..Len(scoreLog) :
          /\ scoreLog[i].week_start = scoreLog[j].week_start
          /\ \E s \in Range(scoreLog[i].scores) : \E t \in Range(scoreLog[j].scores) :
                s.keyword_id = t.keyword_id /\ s.score # t.score
    /\ \E r1, r2, r3 \in weekly_scores :
          /\ r1.keyword_id = r2.keyword_id /\ r2.keyword_id = r3.keyword_id
          /\ r1.week_start < r2.week_start /\ r2.week_start < r3.week_start
          /\ r1.score # r2.score

-----------------------------------------------------------------------------
(* Every operation that touches a term row, in any order *)

StorePosts == {PostVc, PostEarnings}

\* a scoring pass among the calls: score_all_keywords, then get_tier_keywords
ApiScoringPass ==
    /\ calls < MaxCalls
    /\ DoScoring
    /\ calls' = calls + 1
    /\ UNCHANGED <<today, keywords, mentions, processed_sources, terms,
                   term_occurrences, ctl, procCount, procRuns, storeCalls, marked>>

NextStore ==
    \/ ApiTick
    \/ \E term \in ApiTerms : ApiGetOrCreateKeyword(term)
    \/ \E p \in StorePosts : ApiProcessPosts(p.source_type, <<p>>)
    \/ \E items \in TermDicts, d \in StoreDates : ApiStoreTerms("hackernews", items, d)
    \/ ApiScoringPass

SpecStore == Init /\ [][NextStore]_vars

\* a step that is a call of get_or_create_keyword
IsGetOrCreateStep ==
    /\ calls' # calls
    /\ today' = today
    /\ ret' # <<>>
    /\ ret'[1] = "get_or_create_keyword"

\* rows stay, with their term and first_seen
KeywordRowsKept ==
    \A k \in keywords : \E k2 \in keywords' :
        k2.id = k.id /\ k2.term = k.term /\ k2.first_seen = k.first_seen

TermRowsKept ==
    \A t \in terms : \E t2 \in terms' :
        t2.id = t.id /\ t2.term = t.term /\ t2.first_seen = t.first_seen

\* a new keyword row carries the date of the call that creates it
FirstSeenSetAtCreation ==
    \A k2 \in keywords' :
        (\A k \in keywords : k.id # k2.id) => k2.first_seen = today

\* get_or_create_keyword on an existing term returns its id and dates the row
LastUpdatedIsCallDate ==
    IsGetOrCreateStep =>
        \A k \in keywords :
            k.term = ret'[2] =>
                /\ ret'[3] = k.id
                /\ \E k2 \in keywords' : k2.id = k.id /\ k2.last_updated = today

\* C11: a term row is never deleted; its first_seen is set when the row is
\* created and left unchanged by every later get_or_create_keyword,
\* add_mention, store_terms and scoring run; get_or_create_keyword on an
\* existing term sets last_updated to the date of that call.
C11_FirstSeenImmutable ==
    [][KeywordRowsKept /\ TermRowsKept /\ FirstSeenSetAtCreation
       /\ LastUpdatedIsCallDate]_vars

\* a keyword looked up again on a later day and then scored
C11_Witness ==
    /\ \E k \in keywords : k.last_updated > k.first_seen
    /\ weekly_scores # {}

\* the dates of the occurrences recorded for term row t
OccurrenceDates(t) == {o.date : o \in {r \in term_occurrences : r.term_id = t.id}}

\* C12: after any sequence of store_terms calls, with any collection dates,
\* each term's first_seen is the earliest date of the occurrences recorded
\* for it.
C12_FirstSeenIsEarliest ==
    \A t \in terms :
        /\ OccurrenceDates(t) # {}
        /\ \A d \in OccurrenceDates(t) : t.first_seen <= d
        /\ t.first_seen \in OccurrenceDates(t)

-----------------------------------------------------------------------------
(* The extractors called on any Python value.  A value is its type, with    *)
(* the field of that type set and the others at their zero.                 *)

PyStr(s) == [type |-> "str", str |-> s, int |-> 0, list |-> <<>>]
PyInt(n) == [type |-> "int", str |-> "", int |-> n, list |-> <<>>]
PyList(l) == [type |-> "list", str |-> "", int |-> 0, list |-> l]
PyNone == [type |-> "NoneType", str |-> "", int |-> 0, list |-> <<>>]

\* bool(v): None, 0, '' and [] are falsy
Truthy(v) ==
    CASE v.type = "str"  -> v.str # ""
      [] v.type = "int"  -> v.int # 0
      [] v.type = "list" -> v.list # <<>>
      [] OTHER           -> FALSE

Returned(value) == [raised |-> "", value |-> value]
Raised(exception) == [raised |-> exception, value |-> <<>>]

\* _extract_with_spacy: text[:100000] raises on an int, self.nlp(...) on a list
extract_with_spacy(text) ==
    CASE text.type = "str" -> {Returned(extract_keywords(text.str))}
      [] text.type = "int" -> {Raised("TypeError")}
      [] OTHER             -> {Raised("TypeError"), Raised("ValueError")}

\* _extract_basic: text.lower() exists on a str only
extract_basic(text) ==
    IF text.type = "str" THEN {Returned(extract_keywords(text.str))}
    ELSE {Raised("AttributeError")}

\* the truthiness test alone guarding both paths, as in the source
extract_keywords_of(text, nlp) ==
    IF ~Truthy(text) THEN {Returned(<<>>)}
    ELSE IF nlp THEN extract_with_spacy(text)
    ELSE extract_basic(text)

\* TermExtractor on the texts above: the terms of a text, most repeated first
extract_from_str(text) ==
    [i \in DOMAIN extract_keywords(text) |-> extract_keywords(text)[i][1]]

\* TermExtractor._extract_from_text
extract_from_text(text) ==
    IF ~Truthy(text) \/ text.type # "str" THEN {Returned(<<>>)}
    ELSE {Returned(extract_from_str(text.str))}

Texts == {"", "agentic ai", "embedded fx", "agentic ai embedded fx"}

ExtractInputs ==
    {PyNone} \cup {PyStr(t) : t \in Texts} \cup {PyInt(n) : n \in 0..MaxInt}
    \cup {PyList(l) : l \in UNION {[1..n -> Texts] : n \in 0..MaxListLen}}

\* the stores empty and idle, the arguments of the call drawn from inputs
InitFn(inputs) ==
    /\ today = 0
    /\ keywords = {}
    /\ mentions = {}
    /\ weekly_scores = {}
    /\ processed_sources = {}
    /\ terms = {}
    /\ term_occurrences = {}
    /\ pc = "idle"
    /\ args = {}
    /\ runs = 0
    /\ fnArgs \in inputs
    /\ ret = <<>>
    /\ procCount = [p \in AllPosts |-> 0]
    /\ procRuns = [p \in AllPosts |-> {}]
    /\ scoreLog = <<>>
    /\ storeCalls = <<>>
    /\ marked = <<>>
    /\ calls = 0

\* a call that only returns: nothing but ret changes
ReturnOnly ==
    UNCHANGED <<today, keywords, mentions, weekly_scores, processed_sources, terms,
                term_occurrences, ctl, procCount, hist, storeCalls, marked, calls>>

InitExtract == InitFn(ExtractInputs)

ExtractKeywords(nlp) ==
    /\ ret = <<>>
    /\ \E out \in extract_keywords_of(fnArgs, nlp) :
          ret' = <<"extract_keywords", out>>
    /\ ReturnOnly

ExtractFromText ==
    /\ ret = <<>>
    /\ \E out \in extract_from_text(fnArgs) :
          ret' = <<"_extract_from_text", out>>
    /\ ReturnOnly

NextExtract ==
    \/ \E nlp \in BOOLEAN : ExtractKeywords(nlp)
    \/ ExtractFromText

SpecExtract == InitExtract /\ [][NextExtract]_vars

\* the input is empty or is no string
EmptyOrNotStr ==
    \/ fnArgs.type # "str"
    \/ fnArgs = PyStr("")

\* C13: on every empty input and on every input that is not a string (None,
\* a number, a list) both extractors return an empty result and do not raise.
C13_EmptyResultNoRaise ==
    (ret # <<>> /\ EmptyOrNotStr) => ret[2] = Returned(<<>>)

-----------------------------------------------------------------------------
(* processing/keyword_extraction.py: _is_valid_phrase.  Phrases are strings; *)
(* the str methods are computed character by character.                      *)

UpperLetters == "ABCDEFGHIJKLMNOPQRSTUVWXYZ"
LowerLetters == "abcdefghijklmnopqrstuvwxyz"
DigitChars == "0123456789"

CharAt(s, i) == SubSeq(s, i, i)

\* the position of character c in s, 0 if it is not there
IndexIn(c, s) ==
    IF \E i \in 1..Len(s) : CharAt(s, i) = c
    THEN CHOOSE i \in 1..Len(s) : CharAt(s, i) = c
    ELSE 0

IsUpperChar(c) == IndexIn(c, UpperLetters) > 0
IsLowerChar(c) == IndexIn(c, LowerLetters) > 0
IsDigitChar(c) == IndexIn(c, DigitChars) > 0
IsWordChar(c) == IsUpperChar(c) \/ IsLowerChar(c) \/ IsDigitChar(c) \/ c = "_"

\* str.lower()
RECURSIVE str_lower(_)
str_lower(s) ==
    IF s = "" THEN ""
    ELSE (IF IsUpperChar(CharAt(s, 1))
          THEN CharAt(LowerLetters, IndexIn(CharAt(s, 1), UpperLetters))
          ELSE CharAt(s, 1)) \o str_lower(SubSeq(s, 2, Len(s)))

\* str.isupper(), str.islower(): some cased character, and none of the other case
isupper(s) ==
    /\ \E i \in 1..Len(s) : IsUpperChar(CharAt(s, i))
    /\ \A i \in 1..Len(s) : ~IsLowerChar(CharAt(s, i))

islower(s) ==
    /\ \E i \in 1..Len(s) : IsLowerChar(CharAt(s, i))
    /\ \A i \in 1..Len(s) : ~IsUpperChar(CharAt(s, i))

\* str.isdigit()
isdigit(s) == s # "" /\ \A i \in 1..Len(s) : IsDigitChar(CharAt(s, i))

\* str.split(): the maximal runs of characters that are not spaces
RECURSIVE SplitFrom(_, _, _)
SplitFrom(s, cur, acc) ==
    IF s = "" THEN (IF cur = "" THEN acc ELSE Append(acc, cur))
    ELSE IF CharAt(s, 1) = " "
         THEN SplitFrom(SubSeq(s, 2, Len(s)), "",
                        IF cur = "" THEN acc ELSE Append(acc, cur))
         ELSE SplitFrom(SubSeq(s, 2, Len(s)), cur \o CharAt(s, 1), acc)

split(s) == SplitFrom(s, "", <<>>)

\* ' '.join(words)
RECURSIVE join(_)
join(words) ==
    IF words = <<>> THEN ""
    ELSE IF Len(words) = 1 THEN words[1]
    ELSE words[1] \o " " \o join(Tail(words))

\* sub in s
Contains(s, sub) ==
    \E i \in 1..(Len(s) - Len(sub) + 1) : SubSeq(s, i, i + Len(sub) - 1) = sub

\* re.search(r'\b(sub)\b', s): sub between two word boundaries
ContainsWord(s, sub) ==
    \E i \in 1..(Len(s) - Len(sub) + 1) :
        /\ SubSeq(s, i, i + Len(sub) - 1) = sub
        /\ (i = 1 \/ ~IsWordChar(CharAt(s, i - 1)))
        /\ (i + Len(sub) - 1 = Len(s) \/ ~IsWordChar(CharAt(s, i + Len(sub))))

\* config.py: the word-count limits and the jargon stoplist
MIN_KEYWORD_LENGTH == 2
MAX_KEYWORD_LENGTH == 4
FILTER_PHRASES == {"Thought Leadership", "digital transformation"}

\* self.filter_phrases = {p.lower() for p in FILTER_PHRASES}
filter_phrases == {str_lower(p) : p \in FILTER_PHRASES}

stopwords ==
    {"the", "a", "an", "and", "or", "but", "in", "on", "at", "to", "for",
     "of", "with", "by", "from", "as", "is", "was", "are", "were",
     "been", "be", "have", "has", "had", "do", "does", "did", "will",
     "would", "could", "should", "may", "might", "must", "shall", "can",
     "this", "that", "these", "those", "it", "its", "we", "our", "you",
     "your", "they", "their", "he", "she", "him", "her", "i", "my", "me"}

social_terms ==
    {"share", "linkedin", "facebook", "twitter", "post", "click",
     "subscribe", "newsletter", "email", "sign up", "read more",
     "learn more", "view all", "see more", "follow", "like"}

vc_firms ==
    {"sequoia", "greylock", "andreessen", "a16z", "bessemer", "accel",
     "benchmark", "kleiner", "nfx", "lightspeed", "index ventures",
     "first round", "capital", "ventures", "partners", "portfolio"}

generic_terms ==
    {"new way", "first time", "next step", "last year", "next year",
     "more than", "less than", "most important", "new era", "big data",
     "best practices", "key takeaways", "main point", "related topics",
     "funding announcement", "business users", "ai future", "ai era",
     "news article", "blog post", "where ai", "just the beginning",
     "little impact", "ai remains", "ai trade", "says ai", "nearly 70",
     "top shape"}

news_noise ==
    {"yahoo finance", "marketwatch", "cnbc", "reuters", "bloomberg",
     "seeking alpha", "wall street", "stock market", "market cap",
     "stock price", "share price", "stock dips", "stock rises",
     "stock falls", "stock gains", "stocks to watch", "trading day",
     "market close", "market open", "earnings report", "earnings call",
     "quarterly results", "fiscal quarter", "revenue growth",
     "upbeat outlook", "costco dips", "broadcom stock",
     "money challenge", "finance earnings", "finance video",
     "analyst rating", "buy rating", "hold rating", "sell rating",
     "price target", "ticker symbol", "morning squawk", "five key",
     "key things", "weak revenue", "down ai", "ai stocks", "new year",
     "quarterly earnings", "earnings preview", "earnings news",
     "google news", "news search", "trader trafigura", "kratos defense",
     "venezuela oil"}

common_titles ==
    {"mr", "mrs", "ms", "dr", "prof"}

stock_words ==
    {"stock", "shares", "price", "dips", "rises", "falls", "gains",
     "jumps", "drops"}

\* words[0].lower() in stopwords
StartsWithStopword(words) == str_lower(words[1]) \in stopwords

\* the last word compared without lower()
EndsWithStopwordExact(words) == words[Len(words)] \in stopwords

\* words[-1].lower() in stopwords
EndsWithStopword(words) == str_lower(words[Len(words)]) \in stopwords

\* the heuristic applied to two-word phrases only
LooksLikePersonNamePair(original_words) ==
    /\ Len(original_words) = 2
    /\ \A i \in DOMAIN original_words :
          LET w == original_words[i] IN
          (w # "" /\ ~isupper(w)) =>
              /\ IsUpperChar(CharAt(w, 1))
              /\ (Len(w) = 1 \/ islower(SubSeq(w, 2, Len(w))))
    /\ ~\E i \in DOMAIN original_words : isupper(original_words[i])
    /\ str_lower(original_words[1]) \notin common_titles

\* two or three capital-initial words, none all-caps, no title in front
LooksLikePersonName(original_words) ==
    /\ Len(original_words) \in {2, 3}
    /\ \A i \in DOMAIN original_words :
          LET w == original_words[i] IN
          (w # "" /\ ~isupper(w)) =>
              /\ IsUpperChar(CharAt(w, 1))
              /\ (Len(w) = 1 \/ islower(SubSeq(w, 2, Len(w))))
    /\ ~\E i \in DOMAIN original_words : isupper(original_words[i])
    /\ str_lower(original_words[1]) \notin common_titles

\* the rules of _is_valid_phrase between the stopword rules and the name rule
PassesNoiseRules(phrase) ==
    LET words == split(phrase)
        phrase_lower == str_lower(phrase)
    IN  /\ \E i \in DOMAIN words : str_lower(words[i]) \notin stopwords
        /\ ~\E term \in social_terms : Contains(phrase_lower, term)
        /\ ~\E firm \in vc_firms : Contains(phrase_lower, firm)
        /\ ~\A i \in DOMAIN words : isdigit(words[i])
        /\ Len(phrase) >= 5
        /\ ~\A i \in DOMAIN words : Len(words[i]) <= 1
        /\ phrase_lower \notin generic_terms
        /\ ~\E noise \in news_noise : Contains(phrase_lower, noise)
        /\ ~\E w \in stock_words : ContainsWord(phrase_lower, w)

is_valid_phrase(phrase) ==
    LET words == split(phrase)
        phrase_lower == str_lower(phrase)
    IN  IF phrase = "" THEN FALSE
        ELSE IF Len(words) < MIN_KEYWORD_LENGTH \/ Len(words) > MAX_KEYWORD_LENGTH
        THEN FALSE
        ELSE IF phrase_lower \in filter_phrases THEN FALSE
        ELSE IF StartsWithStopword(words) THEN FALSE
        ELSE IF EndsWithStopword(words) THEN FALSE
        ELSE IF ~PassesNoiseRules(phrase) THEN FALSE
        ELSE IF LooksLikePersonName(words) THEN FALSE
        ELSE TRUE

\* the words phrases are put together from
PhraseWords ==
    {"the", "The", "platform", "John", "Smith", "Mary", "Dr", "AI", "unlike",
     "thought", "Leadership", "70"}

PhraseInputs == UNION {[1..n -> PhraseWords] : n \in 0..MaxWords}

InitPhrase == InitFn(PhraseInputs)

IsValidPhrase ==
    /\ ret = <<>>
    /\ ret' = <<"_is_valid_phrase", join(fnArgs), is_valid_phrase(join(fnArgs))>>
    /\ ReturnOnly

NextPhrase == IsValidPhrase

SpecPhrase == InitPhrase /\ [][NextPhrase]_vars

\* two characters that are the same letter in either case, or the same character
SameLetter(c, d) ==
    \/ c = d
    \/ IndexIn(c, UpperLetters) > 0 /\ IndexIn(c, UpperLetters) = IndexIn(d, LowerLetters)
    \/ IndexIn(c, LowerLetters) > 0 /\ IndexIn(c, LowerLetters) = IndexIn(d, UpperLetters)

SameIgnoringCase(a, b) ==
    /\ Len(a) = Len(b)
    /\ \A i \in 1..Len(a) : SameLetter(CharAt(a, i), CharAt(b, i))

IsStopword(w) == \E sw \in stopwords : SameIgnoringCase(w, sw)

\* C14: _is_valid_phrase rejects every phrase whose last word or first word
\* is a stopword, whatever the other words are, and every phrase that equals
\* a FILTER_PHRASES entry when case is ignored.
C14_StopwordEdgesRejected ==
    (ret # <<>> /\ fnArgs # <<>>) =>
        /\ (IsStopword(fnArgs[Len(fnArgs)]) \/ IsStopword(fnArgs[1])) => ret[3] = FALSE
        /\ (\E e \in FILTER_PHRASES : SameIgnoringCase(ret[2], e)) => ret[3] = FALSE

\* a two-word phrase rejected for its capitalised last word alone
C14_Witness ==
    /\ ret # <<>>
    /\ Len(fnArgs) = 2
    /\ IsStopword(fnArgs[2])
    /\ fnArgs[2] \notin stopwords
    /\ ~IsStopword(fnArgs[1])
    /\ PassesNoiseRules(ret[2])
    /\ ret[3] = FALSE

\* a capital letter followed by lower-case letters only
NameShaped(w) ==
    /\ Len(w) >= 2
    /\ IsUpperChar(CharAt(w, 1))
    /\ \A i \in 2..Len(w) : IsLowerChar(CharAt(w, i))

IsTitle(w) == \E t \in {"mr", "mrs", "ms", "dr", "prof"} : SameIgnoringCase(w, t)

\* C15: a phrase of two or three words, each a capital letter followed by
\* lower case, none all-caps, the first no title (mr, mrs, ms, dr, prof), is
\* rejected by _is_valid_phrase even when it passes every other rule.
C15_PersonNameRejected ==
    (/\ ret # <<>>
     /\ Len(fnArgs) \in {2, 3}
     /\ \A i \in DOMAIN fnArgs : NameShaped(fnArgs[i])
     /\ ~IsTitle(fnArgs[1])) => ret[3] = FALSE

\* a three-word name that every other rule lets through
C15_Witness ==
    /\ ret # <<>>
    /\ Len(fnArgs) = 3
    /\ \A i \in DOMAIN fnArgs : NameShaped(fnArgs[i])
    /\ ~IsTitle(fnArgs[1])
    /\ ~\E e \in FILTER_PHRASES : SameIgnoringCase(ret[2], e)
    /\ ~IsStopword(fnArgs[1])
    /\ ~IsStopword(fnArgs[3])
    /\ PassesNoiseRules(ret[2])
    /\ ret[3] = FALSE

\* the mentions of keyword k from the given source types dated in the week of w
MentionsInPeriod(k, types, w) ==
    {m \in mentions : /\ m.keyword_id = k
                      /\ m.source_type \in types
                      /\ m.mention_date >= w
                      /\ m.mention_date < w + DaysPerWeek}

\* C16: a term scored for a period is flagged is_cross_tier only if it has a
\* tier-1 mention and a tier-3 mention dated within that period; mentions of
\* earlier periods alone do not make it cross-tier.
C16_CrossTierWithinPeriod ==
    \A i \in DOMAIN scoreLog : \A s \in Range(scoreLog[i].scores) :
        s.is_cross_tier =>
            /\ MentionsInPeriod(s.keyword_id, {"vc_blog", "yc_batch"},
                                scoreLog[i].week_start) # {}
            /\ MentionsInPeriod(s.keyword_id,
                                {"earnings_call", "sec_filing", "financial_news"},
                                scoreLog[i].week_start) # {}

\* a step that ran a scoring pass
IsScoringStep == scoreLog' # scoreLog

\* the weekly_scores rows of every week but the one being scored are as before
OtherWeeksKept ==
    /\ \A r \in weekly_scores :
          r.week_start # get_week_start(today) => r \in weekly_scores'
    /\ \A r \in weekly_scores' :
          r.week_start # get_week_start(today) => r \in weekly_scores

\* C17: a scoring pass (score_all_keywords followed by get_tier_keywords)
\* leaves keywords, mentions and processed_sources unchanged and writes
\* weekly_scores rows only for the week being scored.
C17_ScoringPassFrame ==
    [][IsScoringStep =>
          /\ keywords' = keywords
          /\ mentions' = mentions
          /\ processed_sources' = processed_sources
          /\ OtherWeeksKept]_vars

\* a pass has scored a keyword with mentions in a week after one already scored
C17_Witness ==
    /\ mentions # {}
    /\ Len(scoreLog) >= 2
    /\ \E r1, r2 \in weekly_scores :
          /\ r1.keyword_id = r2.keyword_id
          /\ r1.week_start < r2.week_start
          /\ r2.week_start = scoreLog[Len(scoreLog)].week_start

\* run_scoring of the execution of main() under way has begun
ScoringBegun ==
    /\ pc # "idle"
    /\ \E i \in DOMAIN scoreLog : scoreLog[i].run = runs

\* a step that records a Mention or marks a document processed
IsExtractionWrite ==
    \/ mentions' # mentions
    \/ processed_sources' # processed_sources
    \/ marked' # marked

\* C18: in every execution of main the scoring pass starts only after the
\* extraction steps have finished: no Mention is recorded and no document is
\* marked processed once run_scoring of that execution has begun, and
\* run_scoring itself writes neither.
C18_NoExtractionAfterScoring ==
    [][/\ ScoringBegun => ~IsExtractionWrite
       /\ IsScoringStep => (pc = "scoring" /\ ~IsExtractionWrite)]_vars

\* an execution that recorded mentions and marked a document has reached the
\* report step, its scoring pass done
C18_Witness ==
    /\ pc = "report"
    /\ ScoringBegun
    /\ \E p \in AllPosts : runs \in procRuns[p]
    /\ \E m \in mentions : TRUE

-----------------------------------------------------------------------------
(* _calculate_trend called on its own, scores in hundredths *)

\* previous scores: none, zero, and non-zero ones of either sign
TrendPrevScores == {None} \cup {Some(v) : v \in {0, 50, 1000, 2000, -2000}}

\* current scores: around 90 % and 110 % of each previous score
TrendCurrentScores ==
    {-2201, -2200, -2199, -1801, -1800, -1799, 0, 44, 45, 46, 50, 54, 55, 56,
     899, 900, 901, 1000, 1099, 1100, 1101, 1799, 1800, 1801, 2000, 2199, 2200,
     2201, 4000}

TrendInputs == [prev_score : TrendPrevScores, current_score : TrendCurrentScores]

InitTrend == InitFn(TrendInputs)

CalculateTrend ==
    /\ ret = <<>>
    /\ ret' = <<"_calculate_trend", fnArgs.prev_score, fnArgs.current_score,
                calculate_trend(fnArgs.prev_score, fnArgs.current_score)>>
    /\ ReturnOnly

NextTrend == CalculateTrend

SpecTrend == InitTrend /\ [][NextTrend]_vars

\* (current - previous) / previous * 100 compared with x, previous non-zero
ChangeAbove(previous, current, x) ==
    IF previous > 0 THEN (current - previous) * 100 > x * previous
    ELSE (current - previous) * 100 < x * previous

ChangeBelow(previous, current, x) ==
    IF previous > 0 THEN (current - previous) * 100 < x * previous
    ELSE (current - previous) * 100 > x * previous

\* the label the thresholds give
TrendLabel(previous, current) ==
    IF ChangeAbove(previous, current, 10) THEN "up"
    ELSE IF ChangeBelow(previous, current, -10) THEN "down"
    ELSE "stable"

\* C19: for a non-zero previous score _calculate_trend returns
\* percent_change = (current - previous) / previous * 100 and the label 'up'
\* exactly when percent_change > 10, 'down' exactly when percent_change < -10
\* and 'stable' otherwise; a change of exactly +10 or -10 is 'stable'.
C19_TrendThresholds ==
    (/\ ret # <<>>
     /\ ret[1] = "_calculate_trend"
     /\ ret[2] # None
     /\ ret[2] # Some(0)) =>
        LET previous == ret[2][1]
            current == ret[3]
            t == ret[4]
        IN  /\ t.den # 0
            /\ t.num * previous = (current - previous) * 100 * t.den
            /\ t.trend = TrendLabel(previous, current)
            /\ (current - previous) * 100 = 10 * previous => t.trend = "stable"
            /\ (current - previous) * 100 = -10 * previous => t.trend = "stable"

\* calls have returned for a change of exactly +10 % (2000 to 2200)
C19_Witness ==
    /\ ret # <<>>
    /\ ret[1] = "_calculate_trend"
    /\ ret[2] = Some(2000)
    /\ ret[3] = 2200
    /\ ret[4].trend = "stable"

-----------------------------------------------------------------------------
(* Two workers running the per-document store path of process_posts on one   *)
(* database.  Every Database method opens a connection of its own and        *)
(* commits before it returns, so the statements of the two workers           *)
(* interleave; SQLite serialises the statements themselves.  In this         *)
(* specification pc, fnArgs and ret hold one value per worker.               *)

Workers == {1, 2}

\* documents that all mention 'agentic ai'
WorkerPosts == {PostVc, PostNews, PostEarnings}

\* each worker has a document of its own
WorkerInputs == {f \in [Workers -> WorkerPosts] : f[1] # f[2]}

\* for keyword_term, count in keywords: the term the worker is at
WorkerTerm(w) == extract_keywords(fnArgs[w].text)[ret[w].i][1]

InitWorkers ==
    /\ today = 0
    /\ keywords = {}
    /\ mentions = {}
    /\ weekly_scores = {}
    /\ processed_sources = {}
    /\ terms = {}
    /\ term_occurrences = {}
    /\ pc = [w \in Workers |-> "select"]
    /\ args = {}
    /\ runs = 0
    /\ fnArgs \in WorkerInputs
    /\ ret = [w \in Workers |-> [i |-> 1, row |-> None, returned |-> {}, error |-> ""]]
    /\ procCount = [p \in AllPosts |-> 0]
    /\ procRuns = [p \in AllPosts |-> {}]
    /\ scoreLog = <<>>
    /\ storeCalls = <<>>
    /\ marked = <<>>
    /\ calls = 0

\* what a worker step leaves alone besides the tables it writes
WorkerFrame ==
    UNCHANGED <<today, weekly_scores, terms, term_occurrences, args, runs, fnArgs,
                procCount, hist, storeCalls, marked, calls>>

\* SELECT id FROM keywords WHERE term = ?
WorkerSelect(w) ==
    /\ pc[w] = "select"
    /\ LET rows == {r \in keywords : r.term = WorkerTerm(w)}
           row == IF rows = {} THEN None ELSE Some((CHOOSE r \in rows : TRUE).id)
       IN  /\ ret' = [ret EXCEPT ![w].row = row]
           /\ pc' = [pc EXCEPT ![w] = IF row = None THEN "insert" ELSE "update"]
    /\ UNCHANGED <<keywords, mentions, processed_sources>>
    /\ WorkerFrame

\* if row: UPDATE keywords SET last_updated = ? WHERE id = ?; commit; return id
WorkerUpdate(w) ==
    /\ pc[w] = "update"
    /\ LET r == get_or_create_keyword(keywords, WorkerTerm(w), <<>>, today)
       IN  /\ keywords' = r.keywords
           /\ ret' = [ret EXCEPT ![w].returned = @ \cup {<<WorkerTerm(w), r.id>>}]
    /\ pc' = [pc EXCEPT ![w] = "add_mention"]
    /\ UNCHANGED <<mentions, processed_sources>>
    /\ WorkerFrame

\* INSERT INTO keywords ...; commit; return lastrowid.  term is UNIQUE: when
\* a row with the term has been committed since the SELECT, the INSERT raises
\* sqlite3.IntegrityError, which process_posts does not catch.
WorkerInsert(w) ==
    /\ pc[w] = "insert"
    /\ IF \E r \in keywords : r.term = WorkerTerm(w)
       THEN /\ ret' = [ret EXCEPT ![w].error = "sqlite3.IntegrityError"]
            /\ pc' = [pc EXCEPT ![w] = "error"]
            /\ UNCHANGED keywords
       ELSE LET r == get_or_create_keyword(keywords, WorkerTerm(w), <<>>, today)
            IN  /\ keywords' = r.keywords
                /\ ret' = [ret EXCEPT ![w].returned = @ \cup {<<WorkerTerm(w), r.id>>}]
                /\ pc' = [pc EXCEPT ![w] = "add_mention"]
    /\ UNCHANGED <<mentions, processed_sources>>
    /\ WorkerFrame

\* db.add_mention(...), then the next keyword of the document or the marker
WorkerAddMention(w) ==
    /\ pc[w] = "add_mention"
    /\ LET post == fnArgs[w]
           id == (CHOOSE p \in ret[w].returned : p[1] = WorkerTerm(w))[2]
       IN  mentions' = add_mention(mentions, id, post.source_type,
                                   Get(post.source_name, "unknown"),
                                   MentionDate(post, today), post.text,
                                   Get(post.url, ""))
    /\ IF ret[w].i < Len(extract_keywords(fnArgs[w].text))
       THEN /\ ret' = [ret EXCEPT ![w].i = @ + 1]
            /\ pc' = [pc EXCEPT ![w] = "select"]
       ELSE /\ pc' = [pc EXCEPT ![w] = "mark"]
            /\ UNCHANGED ret
    /\ UNCHANGED <<keywords, processed_sources>>
    /\ WorkerFrame

\* db.mark_source_processed(source_type, identifier)
WorkerMark(w) ==
    /\ pc[w] = "mark"
    /\ processed_sources' =
           mark_source_processed(processed_sources, fnArgs[w].source_type,
                                 ProcessedId(fnArgs[w], fnArgs[w].source_type), today)
    /\ pc' = [pc EXCEPT ![w] = "done"]
    /\ UNCHANGED <<keywords, mentions, ret>>
    /\ WorkerFrame

NextWorkers ==
    \E w \in Workers :
        \/ WorkerSelect(w)
        \/ WorkerUpdate(w)
        \/ WorkerInsert(w)
        \/ WorkerAddMention(w)
        \/ WorkerMark(w)

SpecWorkers == InitWorkers /\ [][NextWorkers]_vars

\* both workers have left the store path, by its end or by an exception
WorkersFinished == \A w \in Workers : pc[w] \in {"done", "error"}

\* C20: when two workers concurrently run the per-document store path for
\* documents that contain the same not-yet-known term, both
\* get_or_create_keyword calls complete without error and return the same
\* keyword id, exactly one Term row is created and both Mentions are recorded,
\* whatever the interleaving of the select-then-insert steps.
C20_ConcurrentGetOrCreate ==
    WorkersFinished =>
        /\ \A w \in Workers : pc[w] = "done" /\ ret[w].error = ""
        /\ \A v, w \in Workers : \A p \in ret[v].returned : \A q \in ret[w].returned :
              p[1] = q[1] => p[2] = q[2]
        /\ Cardinality({r \in keywords : r.term = TermAi}) = 1
        /\ \A w \in Workers :
              \E m \in mentions : \E r \in keywords :
                  /\ r.term = TermAi
                  /\ m.keyword_id = r.id
                  /\ m.source_type = fnArgs[w].source_type
                  /\ m.url = fnArgs[w].url

-----------------------------------------------------------------------------
(* src/database/queries.py and src/analysis/trends.py: reading the           *)
(* occurrence store.  SQLite leaves the order of rows that tie on the ORDER   *)
(* BY columns open, so a query is the set of the lists it may return.         *)

TermRags == <<"r", "a", "g", "s">>
TermMoes == <<"m", "o", "e", "s">>
TermModel == <<"m", "o", "d", "e", "l">>

\* the characters of a term as one string
RECURSIVE TermText(_)
TermText(t) == IF t = <<>> THEN "" ELSE Head(t) \o TermText(Tail(t))

\* the first n items of a list: list[:n]
Take(list, n) == SubSeq(list, 1, Min2(n, Len(list)))

\* FROM term_occurrences o JOIN terms t ON t.id = o.term_id
\*                         JOIN sources s ON s.id = o.source_id
JoinedRows(st) ==
    {[term_id |-> t.id, term |-> t.term, first_seen |-> t.first_seen,
      date |-> o.date, source_id |-> s.id, source |-> s.name, count |-> o.count] :
        <<o, t, s>> \in {x \in st.term_occurrences \X st.terms \X Sources :
                            x[2].id = x[1].term_id /\ x[3].id = x[1].source_id}}

\* ORDER BY o.date DESC, o.count DESC
RowBefore(a, b) == a.date > b.date \/ (a.date = b.date /\ a.count > b.count)

RECURSIVE RowOrders(_)
RowOrders(rows) ==
    IF rows = {} THEN {<<>>}
    ELSE UNION {{<<r>> \o q : q \in RowOrders(rows \ {r})} :
                   r \in {r \in rows : \A x \in rows : ~RowBefore(x, r)}}

\* get_all_terms_for_period: the rows dated on or after today - days
get_all_terms_for_period(st, days, day) ==
    RowOrders({[term |-> r.term, first_seen |-> r.first_seen, date |-> r.date,
                source |-> r.source, count |-> r.count] :
                  r \in {x \in JoinedRows(st) : x.date >= day - days}})

RECURSIVE SumCounts(_)
SumCounts(rows) ==
    IF rows = {} THEN 0
    ELSE LET r == CHOOSE x \in rows : TRUE IN r.count + SumCounts(rows \ {r})

\* ORDER BY source_count DESC, total_count DESC, last_seen DESC
TrendingBefore(a, b) ==
    \/ a.source_count > b.source_count
    \/ a.source_count = b.source_count /\ a.total_count > b.total_count
    \/ /\ a.source_count = b.source_count
       /\ a.total_count = b.total_count
       /\ a.last_seen > b.last_seen

RECURSIVE TrendingOrders(_)
TrendingOrders(groups) ==
    IF groups = {} THEN {<<>>}
    ELSE UNION {{<<g>> \o q : q \in TrendingOrders(groups \ {g})} :
                   g \in {g \in groups : \A x \in groups : ~TrendingBefore(x, g)}}

\* get_trending_terms; source_name "" stands for None (both are falsy)
get_trending_terms(st, days, min_occurrences, limit, source_name, day) ==
    LET rows == {r \in JoinedRows(st) :
                    /\ r.date >= day - days
                    /\ source_name # "" => r.source = source_name}
        \* GROUP BY t.id HAVING total_count >= ?
        groups == {[term |-> t.term, first_seen |-> t.first_seen,
                    total_count |-> SumCounts({r \in rows : r.term_id = t.id}),
                    source_count |->
                        Cardinality({r.source_id : r \in {x \in rows : x.term_id = t.id}}),
                    last_seen |-> Max({r.date : r \in {x \in rows : x.term_id = t.id}}),
                    sources |-> {r.source : r \in {x \in rows : x.term_id = t.id}}] :
                      t \in {x \in st.terms : \E r \in rows : r.term_id = x.id}}
    IN  {Take(q, limit) :
            q \in TrendingOrders({g \in groups : g.total_count >= min_occurrences})}

ESTABLISHED_TERMS ==
    {"model", "models", "machine", "learning", "neural", "network",
     "networks", "deep", "training", "inference", "algorithm", "algorithms",
     "prediction", "classification", "regression", "supervised",
     "unsupervised", "google", "microsoft", "amazon", "apple", "meta",
     "facebook", "openai", "github", "aws", "azure", "cloud", "linux",
     "windows", "android", "ios", "api", "sdk", "framework", "library",
     "database", "server", "client", "frontend", "backend", "fullstack",
     "devops", "deployment", "container", "docker", "kubernetes",
     "microservice", "microservices", "python", "javascript", "typescript",
     "rust", "golang", "java", "cpp", "function", "class", "object",
     "variable", "method", "interface", "performance", "accuracy",
     "benchmark", "evaluation", "experiment", "dataset", "approach",
     "technique", "system", "systems", "architecture", "implementation",
     "analysis", "result", "results", "study", "research", "paper",
     "propose", "proposed", "high", "low", "large", "small", "new", "novel",
     "efficient", "effective", "state", "art", "level", "multi", "single",
     "real", "end", "based", "generation", "image", "text", "video", "audio",
     "language", "natural", "process", "processing", "information",
     "knowledge", "task", "tasks", "feature", "features", "input", "output",
     "layer", "layers", "common", "within", "effect", "demand", "previous",
     "production", "build", "train", "alternative", "provide", "provider",
     "require", "present", "introduce", "traditional", "current", "specific",
     "general", "different", "standard", "complex", "simple", "main",
     "various", "multiple", "available", "existing", "potential",
     "significant", "recent", "future", "possible", "important", "necessary",
     "similar", "related", "relevant", "experiments", "experimental",
     "sample", "samples", "representation", "representations", "metric",
     "metrics", "assessment", "additional", "central", "region", "series",
     "soft", "base", "driven", "hard", "final", "initial", "original",
     "second", "total", "full", "control", "policy", "reward",
     "conditioning", "prefix", "community", "vision", "confidence",
     "repository", "star", "stars", "fork", "forks", "finally",
     "specifically", "increasing", "higher", "lower", "changes", "settings",
     "guidance", "directly", "across", "clearly", "typically", "overall",
     "therefore", "however", "although", "meanwhile", "hence", "state-of",
     "the-art", "state-of-the-art"}

\* the grouping loop of get_emerging_terms; stats is the dict in insertion order
RECURSIVE GroupRecords(_, _)
GroupRecords(stats, records) ==
    IF records = <<>> THEN stats
    ELSE LET record == Head(records)
             term == record.term
         IN  IF TermText(Lower(term)) \in ESTABLISHED_TERMS \/ Len(term) < 4
             THEN GroupRecords(stats, Tail(records))
             ELSE LET known == IF \E i \in DOMAIN stats : stats[i].term = term
                               THEN stats
                               ELSE Append(stats,
                                           [term |-> term,
                                            first_seen |-> record.first_seen,
                                            total_count |-> 0, sources |-> {},
                                            arxiv_count |-> 0, hn_count |-> 0,
                                            github_count |-> 0])
                      add(e) ==
                          [e EXCEPT
                             !.total_count = @ + record.count,
                             !.sources = @ \cup {record.source},
                             !.arxiv_count =
                                 IF record.source = "arxiv" THEN @ + record.count ELSE @,
                             !.hn_count =
                                 IF record.source = "hackernews" THEN @ + record.count
                                 ELSE @,
                             !.github_count =
                                 IF record.source = "github" THEN @ + record.count ELSE @]
                  IN  GroupRecords([i \in DOMAIN known |->
                                       IF known[i].term = term THEN add(known[i])
                                       ELSE known[i]],
                                   Tail(records))

\* the emergence score of one grouped term
EmergenceScore(e, cutoff) ==
    (IF e.first_seen >= cutoff THEN 50 ELSE 0)
    + (IF e.arxiv_count > 0
       THEN 20 + (IF 2 * e.arxiv_count > e.total_count THEN 15 ELSE 0)
       ELSE 0)
    + (IF Cardinality(e.sources) >= 2 THEN 10 * Cardinality(e.sources) ELSE 0)
    + (IF 5 <= e.total_count /\ e.total_count <= 30 THEN 10
       ELSE IF e.total_count > 50 THEN -10 ELSE 0)

\* emerging.sort(key=emergence_score, reverse=True): the sort is stable
RECURSIVE SortByEmergence(_)
SortByEmergence(list) ==
    IF list = <<>> THEN <<>>
    ELSE LET best == CHOOSE i \in DOMAIN list :
                         /\ \A j \in DOMAIN list :
                               list[j].emergence_score <= list[i].emergence_score
                         /\ \A j \in 1..(i - 1) :
                               list[j].emergence_score < list[i].emergence_score
             rest == [j \in 1..(Len(list) - 1) |->
                         IF j < best THEN list[j] ELSE list[j + 1]]
         IN  <<list[best]>> \o SortByEmergence(rest)

\* get_emerging_terms on one list returned by get_all_terms_for_period
EmergingFrom(all_data, days, min_count, limit, day) ==
    IF all_data = <<>> THEN <<>>
    ELSE LET term_stats == GroupRecords(<<>>, all_data)
             cutoff == day - days
             kept == SelectSeq(term_stats, LAMBDA e : e.total_count >= min_count)
             emerging ==
                 [i \in DOMAIN kept |->
                     [term |-> kept[i].term, first_seen |-> kept[i].first_seen,
                      total_count |-> kept[i].total_count,
                      sources |-> kept[i].sources,
                      arxiv_count |-> kept[i].arxiv_count,
                      hn_count |-> kept[i].hn_count,
                      github_count |-> kept[i].github_count,
                      emergence_score |-> EmergenceScore(kept[i], cutoff),
                      source_count |-> Cardinality(kept[i].sources),
                      is_new |-> kept[i].first_seen >= cutoff]]
         IN  Take(SortByEmergence(emerging), limit)

get_emerging_terms(st, days, min_count, limit, day) ==
    {EmergingFrom(all_data, days, min_count, limit, day) :
        all_data \in get_all_terms_for_period(st, days, day)}

\* get_term_history: the rows of the term dated on or after today - days
\* (calculate_velocity sums over them, their order is not used)
get_term_history(st, term, days, day) ==
    {[term |-> r.term, source |-> r.source, date |-> r.date, count |-> r.count] :
        r \in {x \in JoinedRows(st) : x.term = Lower(term) /\ x.date >= day - days}}

\* midpoint = date.today() - timedelta(days=days // 2)
Midpoint(days, day) == day - (days \div 2)

\* the half calculate_velocity counts an occurrence of the given date in
HalfOf(date, days, day) == IF date >= Midpoint(days, day) THEN "recent" ELSE "older"

\* calculate_velocity; the velocity is the fraction num / den, 999 for infinity
calculate_velocity(st, term, days, day) ==
    LET history == get_term_history(st, term, days, day)
        recent_count == SumCounts({r \in history : HalfOf(r.date, days, day) = "recent"})
        older_count == SumCounts({r \in history : HalfOf(r.date, days, day) = "older"})
    IN  IF history = {}
        THEN [term |-> term, counted |-> FALSE, recent_count |-> 0, older_count |-> 0,
              num |-> 0, den |-> 1, trend |-> "no_data"]
        ELSE IF older_count = 0
        THEN IF recent_count > 0
             THEN [term |-> term, counted |-> TRUE, recent_count |-> recent_count,
                   older_count |-> older_count, num |-> 999, den |-> 1, trend |-> "new"]
             ELSE [term |-> term, counted |-> TRUE, recent_count |-> recent_count,
                   older_count |-> older_count, num |-> 0, den |-> 1,
                   trend |-> "no_data"]
        ELSE [term |-> term, counted |-> TRUE, recent_count |-> recent_count,
              older_count |-> older_count, num |-> recent_count - older_count,
              den |-> older_count,
              trend |-> IF 2 * (recent_count - older_count) > older_count THEN "rising"
                        ELSE IF 2 * (recent_count - older_count) < -older_count
                             THEN "falling"
                             ELSE "stable"]

\* the dicts handed to store_terms
TrendDicts == {<<<<TermRags, 3>>, <<TermMoes, 1>>>>,
               <<<<TermMoes, 1>>>>,
               <<<<TermModel, 2>>, <<TermAi, 2>>>>}

TrendSources == {"hackernews", "arxiv"}

GetEmergingTerms(days, min_count, limit) ==
    /\ calls < MaxCalls
    /\ \E result \in get_emerging_terms(St, days, min_count, limit, today) :
          ret' = <<"get_emerging_terms", [days |-> days, min_count |-> min_count,
                                          limit |-> limit], result>>
    /\ calls' = calls + 1
    /\ UNCHANGED <<today, keywords, mentions, weekly_scores, processed_sources,
                   terms, term_occurrences, ctl, procCount, hist, storeCalls, marked>>

GetTrendingTerms(days, min_occurrences, limit, source_name) ==
    /\ calls < MaxCalls
    /\ \E result \in get_trending_terms(St, days, min_occurrences, limit,
                                        source_name, today) :
          ret' = <<"get_trending_terms",
                   [days |-> days, min_occurrences |-> min_occurrences,
                    limit |-> limit, source_name |-> source_name], result>>
    /\ calls' = calls + 1
    /\ UNCHANGED <<today, keywords, mentions, weekly_scores, processed_sources,
                   terms, term_occurrences, ctl, procCount, hist, storeCalls, marked>>

CalculateVelocity(term, days) ==
    /\ calls < MaxCalls
    /\ ret' = <<"calculate_velocity", [term |-> term, days |-> days],
                calculate_velocity(St, term, days, today)>>
    /\ calls' = calls + 1
    /\ UNCHANGED <<today, keywords, mentions, weekly_scores, processed_sources,
                   terms, term_occurrences, ctl, procCount, hist, storeCalls, marked>>

NextTerms ==
    \/ ApiTick
    \/ \E src \in TrendSources, items \in TrendDicts, d \in StoreDates :
          ApiStoreTerms(src, items, d)
    \/ \E min_count \in {1, 2}, limit \in {1, 30} :
          GetEmergingTerms(DaysPerWeek, min_count, limit)
    \/ \E min_occurrences \in {1, 2}, limit \in {1, 50}, source_name \in {"", "arxiv"} :
          GetTrendingTerms(DaysPerWeek, min_occurrences, limit, source_name)
    \/ \E term \in {TermRags, TermMoes}, days \in {DaysPerWeek, 2 * DaysPerWeek} :
          CalculateVelocity(term, days)

SpecTerms == Init /\ [][NextTerms]_vars

\* C21: get_emerging_terms filters out single-source terms: every term it
\* returns was mentioned by at least two distinct sources within the period
\* (source_count >= 2), and is neither in ESTABLISHED_TERMS nor below
\* min_count.
C21_EmergingTermsCrossValidated ==
    (ret # <<>> /\ ret[1] = "get_emerging_terms") =>
        \A e \in Range(ret[3]) :
            /\ e.source_count >= 2
            /\ Cardinality({r.source :
                   r \in {x \in JoinedRows(St) :
                             x.term = e.term /\ x.date >= today - ret[2].days}}) >= 2
            /\ TermText(e.term) \notin ESTABLISHED_TERMS
            /\ e.total_count >= ret[2].min_count

\* C22: get_trending_terms ranks first by total occurrences in the period,
\* then by the number of distinct sources, then by recency: a term with a
\* higher total count is never listed after a term with a lower total count.
C22_RankedByTotalCount ==
    (ret # <<>> /\ ret[1] = "get_trending_terms") =>
        \A i, j \in DOMAIN ret[3] :
            i < j => ret[3][i].total_count >= ret[3][j].total_count

-----------------------------------------------------------------------------
(* The branch of the if / elif chain of get_tier_keywords a score takes *)

TierBranch(score) ==
    IF score.is_cross_tier THEN "if"
    ELSE IF score.tier1_mentions > 0 /\ score.tier3_mentions = 0 THEN "elif-1"
    ELSE IF score.tier3_mentions > score.tier1_mentions THEN "elif-2"
    ELSE "else"

\* C23: the final else of the tier classifier (the default to emerging) is
\* taken only by terms that have tier-1 mentions present, a non-zero tier-3
\* count, and a tier-1 count that is not strictly less than the tier-3 count.
C23_FallbackOnlyForTier1Heavy ==
    ret # <<>> =>
        \A i \in DOMAIN fnArgs :
            TierBranch(fnArgs[i]) = "else" =>
                /\ fnArgs[i].tier1_mentions > 0
                /\ fnArgs[i].tier3_mentions # 0
                /\ ~(fnArgs[i].tier1_mentions < fnArgs[i].tier3_mentions)

-----------------------------------------------------------------------------
(* process_posts statement by statement: the process may stop after any      *)
(* database call (each call commits before it returns), and main() may be    *)
(* run again on the same fetched batch.  fnArgs is the batch, ret the local  *)
(* variables of process_posts.  Every count extract_keywords returns is at   *)
(* least 1, so the "continue" of the loop is never taken.                    *)

\* process_posts marking a document before it stores the keywords
FirstStepMarkFirst(post) == "mark"

\* where the body of "for post in posts" starts for a document
FirstStep(post) ==
    IF extract_keywords(post.text) = <<>> THEN "mark" ELSE "get_or_create_keyword"

\* the position after the filter has left the list todo to process_posts
EnterProcessPosts(todo) ==
    /\ ret' = [todo |-> todo, i |-> 1, keyword_id |-> 0]
    /\ pc' = IF todo = <<>> THEN "done" ELSE FirstStep(Head(todo))

CrashSourceTypes == {"vc_blog", "yc_batch", "financial_news", "earnings_call"}

CrashInputs ==
    UNION {{[source_type |-> t, posts |-> b] : b \in Batches(t) \ {<<>>}} :
              t \in CrashSourceTypes}

InitCrash ==
    /\ today = 0
    /\ keywords = {}
    /\ mentions = {}
    /\ weekly_scores = {}
    /\ processed_sources = {}
    /\ terms = {}
    /\ term_occurrences = {}
    /\ args = {}
    /\ runs = 1
    /\ fnArgs \in CrashInputs
    /\ ret = [todo |-> get_new({}, fnArgs.source_type, fnArgs.posts), i |-> 1,
              keyword_id |-> 0]
    /\ pc = IF ret.todo = <<>> THEN "done" ELSE FirstStep(Head(ret.todo))
    /\ procCount = [p \in AllPosts |-> 0]
    /\ procRuns = [p \in AllPosts |-> {}]
    /\ scoreLog = <<>>
    /\ storeCalls = <<>>
    /\ marked = <<>>
    /\ calls = 0

\* keyword_id = db.get_or_create_keyword(keyword_term)
PostGetOrCreateKeyword ==
    /\ pc = "get_or_create_keyword"
    /\ LET post == Head(ret.todo)
           g == get_or_create_keyword(keywords, extract_keywords(post.text)[ret.i][1],
                                      <<>>, today)
       IN  /\ keywords' = g.keywords
           /\ ret' = [ret EXCEPT !.keyword_id = g.id]
    /\ pc' = "add_mention"
    /\ UNCHANGED <<today, mentions, weekly_scores, processed_sources, terms,
                   term_occurrences, args, runs, fnArgs, procCount, hist,
                   storeCalls, marked, calls>>

\* db.add_mention(...), then the next keyword or the marker
PostAddMention ==
    /\ pc = "add_mention"
    /\ LET post == Head(ret.todo) IN
         /\ mentions' = add_mention(mentions, ret.keyword_id, fnArgs.source_type,
                                    Get(post.source_name, "unknown"),
                                    MentionDate(post, today), post.text,
                                    Get(post.url, ""))
         /\ IF ret.i < Len(extract_keywords(post.text))
            THEN /\ ret' = [ret EXCEPT !.i = @ + 1]
                 /\ pc' = "get_or_create_keyword"
            ELSE /\ pc' = "mark"
                 /\ UNCHANGED ret
    /\ UNCHANGED <<today, keywords, weekly_scores, processed_sources, terms,
                   term_occurrences, args, runs, fnArgs, procCount, hist,
                   storeCalls, marked, calls>>

\* db.mark_source_processed(source_type, identifier), then the next document
PostMarkProcessed ==
    /\ pc = "mark"
    /\ LET post == Head(ret.todo)
           identifier == ProcessedId(post, fnArgs.source_type)
       IN  /\ processed_sources' = mark_source_processed(processed_sources,
                                       fnArgs.source_type, identifier, today)
           /\ marked' = Append(marked, <<fnArgs.source_type, identifier>>)
    /\ EnterProcessPosts(Tail(ret.todo))
    /\ UNCHANGED <<today, keywords, mentions, weekly_scores, terms, term_occurrences,
                   args, runs, fnArgs, procCount, hist, storeCalls, calls>>

\* the process stops between two statements
PostCrash ==
    /\ pc \in {"get_or_create_keyword", "add_mention", "mark"}
    /\ pc' = "crashed"
    /\ UNCHANGED <<today, keywords, mentions, weekly_scores, processed_sources, terms,
                   term_occurrences, args, runs, fnArgs, ret, procCount, hist,
                   storeCalls, marked, calls>>

\* the next run: the scraper's filter, then process_posts on what it leaves
PostRerun ==
    /\ pc \in {"crashed", "done"}
    /\ runs < MaxRuns
    /\ runs' = runs + 1
    /\ EnterProcessPosts(get_new(processed_sources, fnArgs.source_type, fnArgs.posts))
    /\ UNCHANGED <<today, keywords, mentions, weekly_scores, processed_sources, terms,
                   term_occurrences, args, fnArgs, procCount, hist, storeCalls,
                   marked, calls>>

NextCrash ==
    \/ PostGetOrCreateKeyword
    \/ PostAddMention
    \/ PostMarkProcessed
    \/ PostCrash
    \/ PostRerun

SpecCrash == InitCrash /\ [][NextCrash]_vars

\* the mentions recorded for keyword number k of a document of the batch
MentionsOfKeyword(post, k) ==
    {m \in mentions :
        /\ m.source_type = fnArgs.source_type
        /\ m.url = Get(post.url, "")
        /\ \E r \in keywords : /\ r.id = m.keyword_id
                               /\ r.term = extract_keywords(post.text)[k][1]}

\* process_posts has written the marker of the document
IsMarked(post) ==
    is_source_processed(processed_sources, fnArgs.source_type,
                        ProcessedId(post, fnArgs.source_type))

\* a marked document has a mention for each of its extracted keywords, and a
\* marker is in the table only if the marking statement has run
MarkedAfterMentions ==
    \A post \in Range(fnArgs.posts) :
        IsMarked(post) =>
            /\ \A k \in DOMAIN extract_keywords(post.text) :
                  MentionsOfKeyword(post, k) # {}
            /\ <<fnArgs.source_type, ProcessedId(post, fnArgs.source_type)>>
                   \in Range(marked)

\* no step removes a mention, a keyword or a marker; a crash writes nothing
OnlyAdds ==
    /\ mentions \subseteq mentions'
    /\ processed_sources \subseteq processed_sources'
    /\ \A r \in keywords : \E q \in keywords' : q.id = r.id /\ q.term = r.term
    /\ pc' = "crashed" =>
          /\ mentions' = mentions
          /\ processed_sources' = processed_sources
          /\ keywords' = keywords
    /\ pc' \in {"get_or_create_keyword", "add_mention", "mark", "done", "crashed"}

-----------------------------------------------------------------------------
(* _extract_basic on real text: the n-gram mode of extract_keywords used     *)
(* when spaCy is not installed.                                              *)

\* re.sub(r'^[^\w]+', '', s)
RECURSIVE StripLeft(_)
StripLeft(str) ==
    IF str # "" /\ ~IsWordChar(CharAt(str, 1)) THEN StripLeft(SubSeq(str, 2, Len(str)))
    ELSE str

\* re.sub(r'[^\w]+$', '', s)
RECURSIVE StripRight(_)
StripRight(str) ==
    IF str # "" /\ ~IsWordChar(CharAt(str, Len(str)))
    THEN StripRight(SubSeq(str, 1, Len(str) - 1))
    ELSE str

\* _clean_phrase
clean_phrase(phrase) ==
    LET stripped == StripRight(StripLeft(join(split(phrase))))
        words == split(stripped)
    IN  join([i \in DOMAIN words |->
                 IF isupper(words[i]) /\ Len(words[i]) <= 5 THEN words[i]
                 ELSE str_lower(words[i])])

\* the phrase of the n words starting at word i: ' '.join(words[i:i+n]), cleaned
WindowPhrase(words, i, n) == clean_phrase(join(SubSeq(words, i, i + n - 1)))

\* the list "phrases" of _extract_basic after the loop for n-grams of n words
NGramsOfLength(words, n) ==
    LET starts == [i \in 1..(IF Len(words) >= n THEN Len(words) - n + 1 ELSE 0) |-> i]
        valid == SelectSeq(starts, LAMBDA i : is_valid_phrase(WindowPhrase(words, i, n)))
    IN  [k \in DOMAIN valid |-> WindowPhrase(words, valid[k], n)]

RECURSIVE NGramsFrom(_, _)
NGramsFrom(words, n) ==
    IF n > MAX_KEYWORD_LENGTH THEN <<>>
    ELSE NGramsOfLength(words, n) \o NGramsFrom(words, n + 1)

\* Counter(phrases).most_common(): first occurrences in order, then a stable
\* sort by count, highest first
RECURSIVE SortByCountDesc(_)
SortByCountDesc(pairs) ==
    IF pairs = <<>> THEN <<>>
    ELSE LET best == CHOOSE i \in DOMAIN pairs :
                         /\ \A j \in DOMAIN pairs : pairs[j][2] <= pairs[i][2]
                         /\ \A j \in 1..(i - 1) : pairs[j][2] < pairs[i][2]
             rest == [j \in 1..(Len(pairs) - 1) |->
                         IF j < best THEN pairs[j] ELSE pairs[j + 1]]
         IN  <<pairs[best]>> \o SortByCountDesc(rest)

most_common(phrases) ==
    LET firsts == SelectSeq([i \in DOMAIN phrases |-> i],
                            LAMBDA i : \A j \in 1..(i - 1) : phrases[j] # phrases[i])
    IN  SortByCountDesc([k \in DOMAIN firsts |->
                            <<phrases[firsts[k]], Occurrences(phrases, phrases[firsts[k]])>>])

\* _extract_basic on a str
extract_basic_text(text) ==
    most_common(NGramsFrom(split(str_lower(text)), MIN_KEYWORD_LENGTH))

\* the tokens texts are put together from
TextTokens == {"John", "Smith", "Mary", "Dr", "AI", "platform", "(data)"}

TextInputs == UNION {[1..n -> TextTokens] : n \in 1..MaxWords}

InitText == InitFn(TextInputs)

\* extract_keywords(text) with self.nlp None
ExtractBasic ==
    /\ ret = <<>>
    /\ ret' = <<"_extract_basic", join(fnArgs), extract_basic_text(join(fnArgs))>>
    /\ ReturnOnly

NextText == ExtractBasic

SpecText == InitText /\ [][NextText]_vars

\* the window of n tokens at i is title-case in the text
TitleCaseWindow(tokens, i, n) ==
    /\ i + n - 1 <= Len(tokens)
    /\ \A j \in i..(i + n - 1) : NameShaped(tokens[j])
    /\ ~IsTitle(tokens[i])

\* C25: the person-name rule is applied to every candidate during extraction:
\* for every input text, a window of 2 or 3 tokens that are all title-case in
\* the text (capital initial, rest lower case, first token not a title)
\* contributes no count to the output of extract_keywords in n-gram mode.
C25_PersonNamesNotCounted ==
    (ret # <<>> /\ ret[1] = "_extract_basic") =>
        \A n \in {2, 3} : \A i \in DOMAIN fnArgs :
            TitleCaseWindow(fnArgs, i, n) =>
                \A k \in DOMAIN ret[3] :
                    ~SameIgnoringCase(ret[3][k][1], join(SubSeq(fnArgs, i, i + n - 1)))

\* the calendar days of the lookback window: today - days up to today
WindowDays(days, day) == (day - days)..day

\* C26: calculate_velocity splits its lookback window at the midpoint into
\* two halves that cover the same number of calendar days, and every
\* occurrence in the window is counted in exactly one half: recent_count +
\* older_count is the total count get_term_history returns for the window.
C26_VelocityHalves ==
    (ret # <<>> /\ ret[1] = "calculate_velocity") =>
        LET days == ret[2].days IN
        /\ Cardinality({d \in WindowDays(days, today) : HalfOf(d, days, today) = "recent"})
               = Cardinality({d \in WindowDays(days, today) :
                                 HalfOf(d, days, today) = "older"})
        /\ ret[3].recent_count + ret[3].older_count
               = SumCounts(get_term_history(St, ret[2].term, days, today))

\* a scoring step for the week of the run before it, no mention recorded since
IsRepeatedScoring ==
    /\ IsScoringStep
    /\ scoreLog # <<>>
    /\ scoreLog[Len(scoreLog)].week_start = get_week_start(today)
    /\ scoreLog[Len(scoreLog)].mentions = Cardinality(mentions)

\* C27: re-running score_all_keywords for the same week with no mention
\* recorded in between is idempotent: the second run returns the same score,
\* trend and percent_change for every term as the first and leaves
\* weekly_scores exactly as the first run left it.
C27_RescoringIdempotent ==
    [][IsRepeatedScoring =>
          /\ scoreLog'[Len(scoreLog')].scores = scoreLog[Len(scoreLog)].scores
          /\ weekly_scores' = weekly_scores]_vars

\* a week has been scored twice running for a term that has a row of an
\* earlier week, with a trend computed against that row
C27_Witness ==
    /\ Len(scoreLog) >= 2
    /\ scoreLog[Len(scoreLog)].week_start = scoreLog[Len(scoreLog) - 1].week_start
    /\ scoreLog[Len(scoreLog)].mentions = scoreLog[Len(scoreLog) - 1].mentions
    /\ \E s \in Range(scoreLog[Len(scoreLog)].scores) :
          /\ s.trend # "new"
          /\ s.percent_change # 0
          /\ \E r \in weekly_scores :
                /\ r.keyword_id = s.keyword_id
                /\ r.week_start < scoreLog[Len(scoreLog)].week_start

\* C28: in any sequence of runs of main under a non-decreasing clock, a
\* scored term whose reported trend is 'new' has percent_change 0 and a score
\* without trend bonus: a term whose first_seen is in the current week never
\* has a weekly_scores row for an earlier week.
C28_NewHasNoTrend ==
    /\ \A i \in DOMAIN scoreLog : \A s \in Range(scoreLog[i].scores) :
          s.trend = "new" =>
              /\ s.percent_change = 0
              /\ s.score = RawOf(s, scoreLog[i].week_start)
    /\ \A k \in keywords :
          k.first_seen >= get_week_start(today) =>
              \A r \in weekly_scores :
                  r.keyword_id = k.id => r.week_start >= get_week_start(today)

\* in one run a term of an earlier week is scored against its earlier row
\* beside a term first seen in this week, which is reported as new
C28_Witness ==
    /\ scoreLog # <<>>
    /\ LET run == scoreLog[Len(scoreLog)] IN
         /\ \E s \in Range(run.scores) :
               s.trend = "new" /\ s.first_seen >= run.week_start /\ run.week_start > 0
         /\ \E s \in Range(run.scores) : s.trend # "new" /\ s.percent_change # 0

\* the part of a score without the new-keyword bonus and the trend bonus,
\* from the counts the score reports
BasePart(s) ==
    Tier1Score(s.vc_sources, s.yc_mentions) + Tier3Score(s.tier3_mentions)
    + (IF s.is_cross_tier THEN CROSS_TIER_BONUS ELSE 0)

\* C29: for every term the part of the score that excludes the new-keyword
\* bonus and the trend bonus never decreases from one scoring run to any later
\* one, and is_cross_tier once true stays true.
C29_BasePartMonotone ==
    \A i \in DOMAIN scoreLog : \A j \in DOMAIN scoreLog :
        i < j =>
            \A s \in Range(scoreLog[i].scores) :
                \E t \in Range(scoreLog[j].scores) :
                    /\ t.keyword_id = s.keyword_id
                    /\ BasePart(t) >= BasePart(s)
                    /\ s.is_cross_tier => t.is_cross_tier

\* a term scored twice whose base part grew and which became cross-tier
\* between the two runs
C29_Witness ==
    \E i \in DOMAIN scoreLog : \E j \in DOMAIN scoreLog :
        /\ i < j
        /\ \E s \in Range(scoreLog[i].scores) : \E t \in Range(scoreLog[j].scores) :
              /\ t.keyword_id = s.keyword_id
              /\ BasePart(t) > BasePart(s)
              /\ ~s.is_cross_tier /\ t.is_cross_tier

\* the mentions rows a step adds for document post and keyword row k
AddedMentions(post, k) ==
    {m \in mentions' \ mentions :
        /\ m.source_type = post.source_type
        /\ m.url = post.url
        /\ m.keyword_id = k.id}

\* C30: within a single run, when the fetched batch contains two records with
\* the same document identifier, mentions are recorded for that document only
\* once: no scraping step adds two mentions rows for one document and keyword.
C30_BatchDuplicatesRecordedOnce ==
    [][\A post \in AllPosts : \A k \in keywords' :
           Cardinality(AddedMentions(post, k)) <= 1]_vars


====
